---- MODULE Spec2Model ----
(***************************************************************************)
(* Zabbia natural-language query engine: intent classification            *)
(* (NLPProcessor.detect_intent), parameter extraction, time-window         *)
(* resolution (TimeRange.from_period), artifact synthesis (generate_sql,   *)
(* generate_api_call, generate_graph_data) and the /query handler          *)
(* (process_query).                                                        *)
(*                                                                         *)
(* Texts are TLA+ strings; TLC evaluates Len, SubSeq and \o on strings, so *)
(* a character is a string of length one and the regular expressions of    *)
(* the source are matched character by character.                          *)
(*                                                                         *)
(* Alphabet.  TLC keeps the strings of a state byte by byte, so a letter   *)
(* outside ASCII does not survive in a state variable.  The accented       *)
(* lower-case letters of the source's patterns, keywords and messages are  *)
(* therefore written, everywhere, as one ASCII character each, none of     *)
(* which occurs in the source's patterns, SQL or messages:                 *)
(*                                                                         *)
(*      a-acute  @      a-tilde  &      c-cedilla  $      e-acute  +       *)
(*      i-acute  !      o-acute  ^      o-tilde    ~      u-acute  |       *)
(*                                                                         *)
(* so "manuten$&o" is the word the source spells with c-cedilla and        *)
(* a-tilde, and "mem^ria" the one with o-acute.  Like the letters they     *)
(* stand for, they are neither digits, white space nor ASCII letters, and  *)
(* str.lower() leaves them alone.  The texts have no accented capitals.    *)
(***************************************************************************)
EXTENDS Integers, Sequences, FiniteSets, TLC

(***************************************************************************)
(* Regular expressions (Python re), as syntax trees.                       *)
(***************************************************************************)
LowerAZ == {"a","b","c","d","e","f","g","h","i","j","k","l","m",
            "n","o","p","q","r","s","t","u","v","w","x","y","z"}
UpperAZ == {"A","B","C","D","E","F","G","H","I","J","K","L","M",
            "N","O","P","Q","R","S","T","U","V","W","X","Y","Z"}
Digit == {"0","1","2","3","4","5","6","7","8","9"}
Whitespace == {" ", "\t", "\n", "\r", "\f"}

Str(w) == [t |-> "str", w |-> w, cs |-> {}, rs |-> <<>>, n |-> 0]
In(cs) == [t |-> "in", w |-> "", cs |-> cs, rs |-> <<>>, n |-> 0]
Dot == [t |-> "any", w |-> "", cs |-> {}, rs |-> <<>>, n |-> 0]
Cat(rs) == [t |-> "cat", w |-> "", cs |-> {}, rs |-> rs, n |-> 0]
Alt(rs) == [t |-> "alt", w |-> "", cs |-> {}, rs |-> rs, n |-> 0]
Opt(r) == [t |-> "opt", w |-> "", cs |-> {}, rs |-> <<r>>, n |-> 0]
Star(r) == [t |-> "star", w |-> "", cs |-> {}, rs |-> <<r>>, n |-> 0]
Plus(r) == [t |-> "plus", w |-> "", cs |-> {}, rs |-> <<r>>, n |-> 0]
Grp(n, r) == [t |-> "grp", w |-> "", cs |-> {}, rs |-> <<r>>, n |-> n]

CharAt(s, i) == SubSeq(s, i, i)

\* The positions (0..Len(s), a position being the number of characters
\* before it) at which a match of r can end when it starts at a position of P.
RECURSIVE Ends(_, _, _)
RECURSIVE EndsCat(_, _, _, _)
RECURSIVE EndsStar(_, _, _, _)
Ends(r, s, P) ==
  IF P = {} THEN {}
  ELSE CASE r.t = "str" -> {p + Len(r.w) : p \in {q \in P : q + Len(r.w) <= Len(s) /\ SubSeq(s, q + 1, q + Len(r.w)) = r.w}}
         [] r.t = "in" -> {p + 1 : p \in {q \in P : q < Len(s) /\ CharAt(s, q + 1) \in r.cs}}
         [] r.t = "any" -> {p + 1 : p \in {q \in P : q < Len(s) /\ CharAt(s, q + 1) # "\n"}}
         [] r.t = "cat" -> EndsCat(r.rs, 1, s, P)
         [] r.t = "alt" -> UNION {Ends(r.rs[k], s, P) : k \in DOMAIN r.rs}
         [] r.t = "opt" -> P \cup Ends(r.rs[1], s, P)
         [] r.t = "star" -> EndsStar(r.rs[1], s, P, P)
         [] r.t = "plus" -> LET F == Ends(r.rs[1], s, P) IN EndsStar(r.rs[1], s, F, F)
         [] r.t = "grp" -> Ends(r.rs[1], s, P)
EndsCat(rs, k, s, P) ==
  IF k > Len(rs) \/ P = {} THEN P ELSE EndsCat(rs, k + 1, s, Ends(rs[k], s, P))
EndsStar(r, s, front, acc) ==
  IF front = {} THEN acc
  ELSE LET nxt == Ends(r, s, front) \ acc IN EndsStar(r, s, nxt, acc \cup nxt)

\* re.search(pattern, s) is not None
Search(r, s) == Ends(r, s, 0 .. Len(s)) # {}

(***************************************************************************)
(* QueryIntent                                                             *)
(***************************************************************************)
HIGH_CPU == "high_cpu"
MEMORY_USAGE == "memory_usage"
DISK_USAGE == "disk_usage"
HOST_STATUS == "host_status"
HOST_UPTIME == "host_uptime"
UNAVAILABLE_SERVICES == "unavailable_services"
ALERT_SUMMARY == "alert_summary"
GRAPH_REQUEST == "graph_request"
HOST_MAINTENANCE == "host_maintenance"
GENERAL_QUERY == "general_query"
UNKNOWN == "unknown"

(***************************************************************************)
(* NLPProcessor.__init__: the pattern tables                               *)
(***************************************************************************)
HostsRe ==  \* (?:hosts?|servidore?s?)
  Alt(<<Cat(<<Str("host"), Opt(Str("s"))>>), Cat(<<Str("servidor"), Opt(Str("e")), Opt(Str("s"))>>)>>)

intent_patterns ==
  <<
    [intent |-> HIGH_CPU, patterns |-> <<
       \* (?:hosts?|servidore?s?).*(?:cpu|processador).*(?:alta|elevad[ao]|acima|maior)
       Cat(<<HostsRe, Star(Dot), Alt(<<Str("cpu"), Str("processador")>>), Star(Dot), Alt(<<Str("alta"), Cat(<<Str("elevad"), In({"a", "o"})>>), Str("acima"), Str("maior")>>)>>),
       \* cpu.*(?:acima|maior).*(?:\d+)[%\s]
       Cat(<<Str("cpu"), Star(Dot), Alt(<<Str("acima"), Str("maior")>>), Star(Dot), Plus(In(Digit)), In({"%"} \cup Whitespace)>>),
       \* quais? hosts? (?:est[áa][ão]o|com) cpu (?:alta|acima)
       Cat(<<Str("quai"), Opt(Str("s")), Str(" host"), Opt(Str("s")), Str(" "), Alt(<<Cat(<<Str("est"), In({"@", "a"}), In({"&", "o"}), Str("o")>>), Str("com")>>), Str(" cpu a"), Alt(<<Str("lta"), Str("cima")>>)>>) >>],
    [intent |-> MEMORY_USAGE, patterns |-> <<
       \* (?:hosts?|servidore?s?).*(?:mem[óo]ria|ram).*(?:alta|elevad[ao]|acima|maior)
       Cat(<<HostsRe, Star(Dot), Alt(<<Cat(<<Str("mem"), In({"^", "o"}), Str("ria")>>), Str("ram")>>), Star(Dot), Alt(<<Str("alta"), Cat(<<Str("elevad"), In({"a", "o"})>>), Str("acima"), Str("maior")>>)>>),
       \* (?:mem[óo]ria|ram).*(?:acima|maior).*(?:\d+)[%\s]
       Cat(<<Alt(<<Cat(<<Str("mem"), In({"^", "o"}), Str("ria")>>), Str("ram")>>), Star(Dot), Alt(<<Str("acima"), Str("maior")>>), Star(Dot), Plus(In(Digit)), In({"%"} \cup Whitespace)>>),
       \* uso de mem[óo]ria
       Cat(<<Str("uso de mem"), In({"^", "o"}), Str("ria")>>) >>],
    [intent |-> DISK_USAGE, patterns |-> <<
       \* (?:hosts?|servidore?s?).*(?:disco|armazenamento|fs|filesystem).*(?:alta|elevad[ao]|acima|maior)
       Cat(<<HostsRe, Star(Dot), Alt(<<Str("disco"), Str("armazenamento"), Str("fs"), Str("filesystem")>>), Star(Dot), Alt(<<Str("alta"), Cat(<<Str("elevad"), In({"a", "o"})>>), Str("acima"), Str("maior")>>)>>),
       \* (?:disco|armazenamento).*(?:acima|maior).*(?:\d+)[%\s]
       Cat(<<Alt(<<Str("disco"), Str("armazenamento")>>), Star(Dot), Alt(<<Str("acima"), Str("maior")>>), Star(Dot), Plus(In(Digit)), In({"%"} \cup Whitespace)>>),
       \* uso de disco
       Str("uso de disco") >>],
    [intent |-> HOST_STATUS, patterns |-> <<
       \* status.*(?:hosts?|servidore?s?)
       Cat(<<Str("status"), Star(Dot), HostsRe>>),
       \* (?:hosts?|servidore?s?).*(?:status|estado)
       Cat(<<HostsRe, Star(Dot), Alt(<<Str("status"), Str("estado")>>)>>),
       \* quais? hosts? (?:est[áa][ão]o) (?:online|offline|down|up)
       Cat(<<Str("quai"), Opt(Str("s")), Str(" host"), Opt(Str("s")), Str(" est"), In({"@", "a"}), In({"&", "o"}), Str("o "), Alt(<<Str("online"), Str("offline"), Str("down"), Str("up")>>)>>) >>],
    [intent |-> HOST_UPTIME, patterns |-> <<
       \* uptime.*(?:hosts?|servidore?s?)
       Cat(<<Str("uptime"), Star(Dot), HostsRe>>),
       \* (?:hosts?|servidore?s?).*uptime
       Cat(<<HostsRe, Star(Dot), Str("uptime")>>),
       \* (?:quanto tempo|desde quando).*(?:hosts?|servidore?s?).*(?:online|ativ[oa]s?)
       Cat(<<Alt(<<Str("quanto tempo"), Str("desde quando")>>), Star(Dot), HostsRe, Star(Dot), Alt(<<Str("online"), Cat(<<Str("ativ"), In({"o", "a"}), Opt(Str("s"))>>)>>)>>) >>],
    [intent |-> UNAVAILABLE_SERVICES, patterns |-> <<
       \* (?:servi[çc]os?|aplica[çc][õo]es?).*(?:indispon[íi]ve(?:l|is)|offline|down|fora do ar)
       Cat(<<Alt(<<Cat(<<Str("servi"), In({"$", "c"}), Str("o"), Opt(Str("s"))>>), Cat(<<Str("aplica"), In({"$", "c"}), In({"~", "o"}), Str("e"), Opt(Str("s"))>>)>>), Star(Dot), Alt(<<Cat(<<Str("indispon"), In({"!", "i"}), Str("ve"), Alt(<<Str("l"), Str("is")>>)>>), Str("offline"), Str("down"), Str("fora do ar")>>)>>),
       \* quais?.*(?:servi[çc]os?|aplica[çc][õo]es?).*(?:est[áa][ão]o).*(?:indispon[íi]ve(?:l|is)|offline|down)
       Cat(<<Str("quai"), Opt(Str("s")), Star(Dot), Alt(<<Cat(<<Str("servi"), In({"$", "c"}), Str("o"), Opt(Str("s"))>>), Cat(<<Str("aplica"), In({"$", "c"}), In({"~", "o"}), Str("e"), Opt(Str("s"))>>)>>), Star(Dot), Str("est"), In({"@", "a"}), In({"&", "o"}), Str("o"), Star(Dot), Alt(<<Cat(<<Str("indispon"), In({"!", "i"}), Str("ve"), Alt(<<Str("l"), Str("is")>>)>>), Str("offline"), Str("down")>>)>>) >>],
    [intent |-> ALERT_SUMMARY, patterns |-> <<
       \* (?:resumo|sum[áa]rio).*(?:alerta|problema)s?
       Cat(<<Alt(<<Str("resumo"), Cat(<<Str("sum"), In({"@", "a"}), Str("rio")>>)>>), Star(Dot), Alt(<<Str("alerta"), Str("problema")>>), Opt(Str("s"))>>),
       \* (?:alerta|problema)s?.*(?:resumo|sum[áa]rio)
       Cat(<<Alt(<<Str("alerta"), Str("problema")>>), Opt(Str("s")), Star(Dot), Alt(<<Str("resumo"), Cat(<<Str("sum"), In({"@", "a"}), Str("rio")>>)>>)>>),
       \* (?:alertas|problemas).*(?:cr[íi]tico|grave)s?
       Cat(<<Alt(<<Str("alertas"), Str("problemas")>>), Star(Dot), Alt(<<Cat(<<Str("cr"), In({"!", "i"}), Str("tico")>>), Str("grave")>>), Opt(Str("s"))>>) >>],
    [intent |-> GRAPH_REQUEST, patterns |-> <<
       \* (?:gr[áa]fico|chart).*(?:cpu|mem[óo]ria|ram|disco|rede|network)
       Cat(<<Alt(<<Cat(<<Str("gr"), In({"@", "a"}), Str("fico")>>), Str("chart")>>), Star(Dot), Alt(<<Str("cpu"), Cat(<<Str("mem"), In({"^", "o"}), Str("ria")>>), Str("ram"), Str("disco"), Str("rede"), Str("network")>>)>>),
       \* (?:gerar?|criar?|mostrar?).*(?:gr[áa]fico|chart)
       Cat(<<Alt(<<Cat(<<Str("gera"), Opt(Str("r"))>>), Cat(<<Str("cria"), Opt(Str("r"))>>), Cat(<<Str("mostra"), Opt(Str("r"))>>)>>), Star(Dot), Alt(<<Cat(<<Str("gr"), In({"@", "a"}), Str("fico")>>), Str("chart")>>)>>),
       \* visualizar?.*(?:gr[áa]fico|chart)
       Cat(<<Str("visualiza"), Opt(Str("r")), Star(Dot), Alt(<<Cat(<<Str("gr"), In({"@", "a"}), Str("fico")>>), Str("chart")>>)>>) >>],
    [intent |-> HOST_MAINTENANCE, patterns |-> <<
       \* (?:colocar?|colocar?|por?|botar?).*(?:em manuten[çc][ãa]o|manutenir)
       Cat(<<Alt(<<Cat(<<Str("coloca"), Opt(Str("r"))>>), Cat(<<Str("coloca"), Opt(Str("r"))>>), Cat(<<Str("po"), Opt(Str("r"))>>), Cat(<<Str("bota"), Opt(Str("r"))>>)>>), Star(Dot), Alt(<<Cat(<<Str("em manuten"), In({"$", "c"}), In({"&", "a"}), Str("o")>>), Str("manutenir")>>)>>),
       \* manuten[çc][ãa]o.*(?:hosts?|servidore?s?)
       Cat(<<Str("manuten"), In({"$", "c"}), In({"&", "a"}), Str("o"), Star(Dot), HostsRe>>),
       \* (?:hosts?|servidore?s?).*manuten[çc][ãa]o
       Cat(<<HostsRe, Star(Dot), Str("manuten"), In({"$", "c"}), In({"&", "a"}), Str("o")>>) >>]
  >>

\* (?:host|servidor[a]?|maquina)[:\s]+([a-zA-Z0-9\-_\.]+)
host_pattern ==
  Cat(<<Alt(<<Str("host"), Cat(<<Str("servidor"), Opt(Str("a"))>>), Str("maquina")>>), Plus(In({":"} \cup Whitespace)), Grp(1, Plus(In({"-", "_", "."} \cup LowerAZ \cup UpperAZ \cup Digit)))>>)

\* (?:acima|maior|superior|mais)[:\s]+(?:de|que)?[:\s]*(\d+)[%\s]
threshold_pattern ==
  Cat(<<Alt(<<Str("acima"), Str("maior"), Str("superior"), Str("mais")>>), Plus(In({":"} \cup Whitespace)), Opt(Alt(<<Str("de"), Str("que")>>)), Star(In({":"} \cup Whitespace)), Grp(1, Plus(In(Digit))), In({"%"} \cup Whitespace)>>)

\* (?:últim(?:as?|os?))[:\s]+(\d+)[:\s]*(minutos?|horas?|dias?|m|h|d)
period_pattern ==
  Cat(<<Str("|ltim"), Alt(<<Cat(<<Str("a"), Opt(Str("s"))>>), Cat(<<Str("o"), Opt(Str("s"))>>)>>), Plus(In({":"} \cup Whitespace)), Grp(1, Plus(In(Digit))), Star(In({":"} \cup Whitespace)), Grp(2, Alt(<<Cat(<<Str("minuto"), Opt(Str("s"))>>), Cat(<<Str("hora"), Opt(Str("s"))>>), Cat(<<Str("dia"), Opt(Str("s"))>>), Str("m"), Str("h"), Str("d")>>))>>)

\* (?:por|durante)[:\s]+(\d+)[:\s]*(minutos?|horas?|dias?|m|h|d)
duration_pattern ==
  Cat(<<Alt(<<Str("por"), Str("durante")>>), Plus(In({":"} \cup Whitespace)), Grp(1, Plus(In(Digit))), Star(In({":"} \cup Whitespace)), Grp(2, Alt(<<Cat(<<Str("minuto"), Opt(Str("s"))>>), Cat(<<Str("hora"), Opt(Str("s"))>>), Cat(<<Str("dia"), Opt(Str("s"))>>), Str("m"), Str("h"), Str("d")>>))>>)

(***************************************************************************)
(* str.lower(), int(), f"{value}"                                          *)
(***************************************************************************)
UpperChars == "ABCDEFGHIJKLMNOPQRSTUVWXYZ"
LowerChars == "abcdefghijklmnopqrstuvwxyz"

LowerChar(c) ==
  IF c \in UpperAZ
  THEN CharAt(LowerChars, CHOOSE i \in 1 .. Len(UpperChars) : CharAt(UpperChars, i) = c)
  ELSE c

RECURSIVE lower(_)
lower(s) == IF s = "" THEN "" ELSE LowerChar(Head(s)) \o lower(Tail(s))

DigitChars == "0123456789"
DigitVal(c) == (CHOOSE i \in 1 .. 10 : CharAt(DigitChars, i) = c) - 1

\* int(s) for a non-empty string of digits
RECURSIVE ParseInt(_)
ParseInt(s) ==
  IF Len(s) = 1 THEN DigitVal(s)
  ELSE 10 * ParseInt(SubSeq(s, 1, Len(s) - 1)) + DigitVal(CharAt(s, Len(s)))

\* f"{value}" for value >= 0
RECURSIVE FormatInt(_)
FormatInt(v) ==
  IF v < 10 THEN CharAt(DigitChars, v + 1)
  ELSE FormatInt(v \div 10) \o CharAt(DigitChars, (v % 10) + 1)

(***************************************************************************)
(* Match objects: re.search / re.match and match.group(n)                  *)
(***************************************************************************)
NoMatch == -1

\* re.search: the leftmost position at which the pattern matches
SearchStart(r, s) ==
  LET starts == {i \in 0 .. Len(s) : Ends(r, s, {i}) # {}}
  IN IF starts = {} THEN NoMatch ELSE CHOOSE i \in starts : \A j \in starts : i <= j

\* re.match: the pattern matches at the beginning of the string
MatchStart(r, s) == IF Ends(r, s, {0}) # {} THEN 0 ELSE NoMatch

Min(S) == CHOOSE x \in S : \A y \in S : x <= y
Max(S) == CHOOSE x \in S : \A y \in S : x >= y

\* match.group(g) of the match of r (a concatenation with the group at its
\* top level) that starts at position i.  The group starts where the parts
\* before it can end and the group itself can still match; every repetition
\* in the source's patterns is greedy, so it ends at the last position from
\* which the rest of the pattern still matches.
GroupIndex(r, g) == CHOOSE j \in DOMAIN r.rs : r.rs[j].t = "grp" /\ r.rs[j].n = g

GroupEnds(r, k, s, a) ==
  {b \in Ends(r.rs[k], s, {a}) : EndsCat(r.rs, k + 1, s, {b}) # {}}

GroupStart(r, k, s, i) ==
  Min({x \in EndsCat(SubSeq(r.rs, 1, k - 1), 1, s, {i}) : GroupEnds(r, k, s, x) # {}})

GroupAt(r, k, s, a) == SubSeq(s, a + 1, Max(GroupEnds(r, k, s, a)))

Group(r, g, s, i) == GroupAt(r, GroupIndex(r, g), s, GroupStart(r, GroupIndex(r, g), s, i))


(***************************************************************************)
(* TimeRange                                                               *)
(***************************************************************************)
None == "None"

\* Seconds in a minute, an hour and a day (datetime.timedelta)
UnitSeconds(unit) == CASE unit = "m" -> 60 [] unit = "h" -> 3600 [] unit = "d" -> 86400

\* The process's time zone (TZ), which datetime.now() and timestamp() read
VARIABLE tz

\* The instant the calls start at
NowBase == 1793500000

\* A zone without transitions, and one three hours behind UTC whose clocks
\* go forward one hour at the instant Spring, ten minutes before NowBase
Zones == {"UTC", "BRT"}
StdOffset == -10800
Spring == NowBase - 600

utcoffset(u) ==
  IF tz = "UTC" THEN 0 ELSE IF u < Spring THEN StdOffset ELSE StdOffset + 3600

\* The wall-clock reading, in seconds, of the instant u: datetime.now()
local(u) == u + utcoffset(u)

\* datetime.timestamp() of the naive wall-clock reading t (fold = 0): the
\* instant whose reading is t; a reading the clocks skipped is taken with
\* the offset in force before the transition.
max_fold_seconds == 24 * 3600
timestamp(t) ==
  LET a == local(t) - t
      u1 == t - a
      t1 == local(u1)
      b == IF t1 = t
           THEN local(u1 - max_fold_seconds) - (u1 - max_fold_seconds)
           ELSE t1 - u1
      u2 == t - b
  IN IF t1 = t /\ a = b THEN u1
     ELSE IF local(u2) = t THEN u2
     ELSE IF t1 = t THEN u1
     ELSE Max({u1, u2})

\* Days from datetime.min (0001-01-01) to the epoch: `now - delta` raises
\* OverflowError when the result would fall before datetime.min.
EpochDay == 719162

\* now - timedelta(<unit>=value) is out of datetime's range, now the
\* wall-clock reading: value * unit > EpochDay * 86400 + now, computed
\* without leaving the machine integers.
DateOverflow(value, unit, now) ==
  value > EpochDay * (86400 \div UnitSeconds(unit)) + (now \div UnitSeconds(unit))

TimeRange(from_timestamp, to_timestamp, time_period) ==
  [raised |-> None, from_timestamp |-> from_timestamp,
   to_timestamp |-> to_timestamp, time_period |-> time_period]

Raise(exc) ==
  [raised |-> exc, from_timestamp |-> 0, to_timestamp |-> 0, time_period |-> ""]

\* (\d+)([dhm])
period_re == Cat(<<Grp(1, Plus(In(Digit))), Grp(2, In({"d", "h", "m"}))>>)

\* from_time = now - delta and TimeRange(from_timestamp, to_timestamp,
\* f"{value}{unit}")
Delta(value, unit, now) ==
  IF DateOverflow(value, unit, local(now))
  THEN Raise("OverflowError")
  ELSE TimeRange(timestamp(local(now) - value * UnitSeconds(unit)),
                 timestamp(local(now)), FormatInt(value) \o unit)

\* TimeRange.from_period(period), the clock reading `now`; p is period.lower()
PeriodWindow(p, now) ==
  IF MatchStart(period_re, p) = NoMatch
  THEN TimeRange(timestamp(local(now) - 24 * 3600), timestamp(local(now)), "24h")
  ELSE Delta(ParseInt(Group(period_re, 1, p, 0)), Group(period_re, 2, p, 0), now)

from_period(period, now) == PeriodWindow(lower(period), now)

(***************************************************************************)
(* NLPProcessor: classification and the parameter probes                   *)
(***************************************************************************)
\* The loop without its early return: every later intent that matches
\* overwrites the earlier one.
RECURSIVE detect_last(_, _, _)
detect_last(normalized_query, i, j) ==
  IF i > Len(intent_patterns) THEN GENERAL_QUERY
  ELSE LET later == detect_last(normalized_query, i + 1, 1)
       IN IF later # GENERAL_QUERY THEN later
          ELSE IF \E k \in j .. Len(intent_patterns[i].patterns) :
                    Search(intent_patterns[i].patterns[k], normalized_query)
          THEN intent_patterns[i].intent
          ELSE GENERAL_QUERY

\* The loop falling through to QueryIntent.UNKNOWN instead of GENERAL_QUERY
RECURSIVE detect_unknown(_, _, _)
detect_unknown(normalized_query, i, j) ==
  IF i > Len(intent_patterns) THEN UNKNOWN
  ELSE IF j > Len(intent_patterns[i].patterns) THEN detect_unknown(normalized_query, i + 1, 1)
  ELSE IF Search(intent_patterns[i].patterns[j], normalized_query)
       THEN intent_patterns[i].intent
       ELSE detect_unknown(normalized_query, i, j + 1)

RECURSIVE detect_from(_, _, _)
detect_from(normalized_query, i, j) ==
  IF i > Len(intent_patterns) THEN GENERAL_QUERY
  ELSE IF j > Len(intent_patterns[i].patterns) THEN detect_from(normalized_query, i + 1, 1)
  ELSE IF Search(intent_patterns[i].patterns[j], normalized_query)
       THEN intent_patterns[i].intent
       ELSE detect_from(normalized_query, i, j + 1)

detect_intent(query) == detect_from(lower(query), 1, 1)

extract_host(query) ==
  LET q == lower(query)
      match == SearchStart(host_pattern, q)
  IN IF match # NoMatch THEN Group(host_pattern, 1, q, match) ELSE None

extract_threshold(query, default) ==
  LET q == lower(query)
      match == SearchStart(threshold_pattern, q)
  IN IF match # NoMatch THEN ParseInt(Group(threshold_pattern, 1, q, match)) ELSE default

\* The period extract_time_range hands to TimeRange.from_period
PeriodToken(value, unit) ==
  CASE unit = "m" -> FormatInt(value) \o "m"
    [] unit = "h" -> FormatInt(value) \o "h"
    [] unit = "d" -> FormatInt(value) \o "d"
    [] OTHER -> "24h"

period_of(query) ==
  LET q == lower(query)
      period_match == SearchStart(period_pattern, q)
  IN IF period_match # NoMatch
     THEN PeriodToken(ParseInt(Group(period_pattern, 1, q, period_match)),
                      lower(Head(Group(period_pattern, 2, q, period_match))))
     ELSE "24h"

\* extract_time_range(query), the clock reading `now`
extract_time_range(query, now) == from_period(period_of(query), now)

\* The number as written, whatever the unit
MinutesAsWritten(value, unit, default) == value

\* The duration in minutes
Minutes(value, unit, default) ==
  CASE unit = "m" -> value
    [] unit = "h" -> value * 60
    [] unit = "d" -> value * 60 * 24
    [] OTHER -> default

extract_duration(query, default) ==
  LET q == lower(query)
      match == SearchStart(duration_pattern, q)
  IN IF match # NoMatch
     THEN Minutes(ParseInt(Group(duration_pattern, 1, q, match)),
                  lower(Head(Group(duration_pattern, 2, q, match))), default)
     ELSE default

\* The probes are pure functions of the text: each is evaluated once per
\* text, and the callers below read its result from this record (nlp.intent
\* is self.detect_intent(query), nlp.host is self.extract_host(query),
\* nlp.period the period of self.extract_time_range(query), and so on).
Probes(query) ==
  [query |-> query,
   intent |-> detect_intent(query),
   host |-> extract_host(query),
   threshold |-> extract_threshold(query, 80),
   duration |-> extract_duration(query, 60),
   period |-> period_of(query)]

(***************************************************************************)
(* NLPProcessor.generate_sql                                               *)
(***************************************************************************)
\* "w in s" on strings
Contains(s, w) ==
  \E i \in 0 .. Len(s) - Len(w) : SubSeq(s, i + 1, i + Len(w)) = w

\* d[k] = v on a dictionary (a function from keys to values)
Put(d, k, v) == [x \in DOMAIN d \cup {k} |-> IF x = k THEN v ELSE d[x]]

\* if cond: d[k] = v
PutIf(cond, d, k, v) == IF cond THEN Put(d, k, v) ELSE d

HostClauseAnd == " AND h.name LIKE :host_pattern"
HostClauseWhere == " WHERE h.name LIKE :host_pattern"

SqlHead(intent) ==
  CASE intent = HIGH_CPU ->
         " -- Hosts com CPU acima do threshold SELECT h.hostid, h.name, 100 - AVG(hu.value) AS cpu_usage FROM hosts h JOIN items i ON h.hostid = i.hostid JOIN history_uint hu ON i.itemid = hu.itemid WHERE i.key_ = 'system.cpu.util[,idle]' AND hu.clock > :from_time AND hu.clock <= :to_time "
    [] intent = MEMORY_USAGE ->
         " -- Hosts com uso de mem^ria acima do threshold SELECT h.hostid, h.name, (1 - AVG(hm.value) / AVG(ht.value)) * 100 AS memory_usage FROM hosts h JOIN items im ON h.hostid = im.hostid JOIN items it ON h.hostid = it.hostid JOIN history hm ON im.itemid = hm.itemid JOIN history ht ON it.itemid = ht.itemid WHERE im.key_ = 'vm.memory.size[available]' AND it.key_ = 'vm.memory.size[total]' AND hm.clock > :from_time AND hm.clock <= :to_time AND ht.clock > :from_time AND ht.clock <= :to_time "
    [] intent = HOST_STATUS ->
         " -- Status dos hosts SELECT h.hostid, h.name, CASE h.status WHEN 0 THEN 'Enabled' WHEN 1 THEN 'Disabled' ELSE 'Unknown' END AS status, CASE h.available WHEN 0 THEN 'Unknown' WHEN 1 THEN 'Available' WHEN 2 THEN 'Unavailable' ELSE 'Unknown' END AS availability FROM hosts h "
    [] intent = HOST_UPTIME ->
         " -- Uptime dos hosts SELECT h.hostid, h.name, hu.value AS uptime_seconds, hu.value / 86400 AS uptime_days FROM hosts h JOIN items i ON h.hostid = i.hostid JOIN history_uint hu ON i.itemid = hu.itemid WHERE i.key_ = 'system.uptime' AND hu.clock > (UNIX_TIMESTAMP() - 300) "
    [] intent = UNAVAILABLE_SERVICES ->
         " -- Servi$os indispon!veis SELECT h.hostid, h.name AS host, i.name AS service, FROM_UNIXTIME(t.lastchange) AS since, t.description AS problem FROM triggers t JOIN functions f ON t.triggerid = f.triggerid JOIN items i ON f.itemid = i.itemid JOIN hosts h ON i.hostid = h.hostid WHERE t.value = 1 AND t.status = 0 AND t.state = 0 "
    [] intent = ALERT_SUMMARY ->
         " -- Resumo de alertas SELECT p.eventid, h.name AS host, p.name AS problem, p.severity, FROM_UNIXTIME(p.clock) AS timestamp, p.r_eventid IS NOT NULL AS resolved FROM problem p JOIN events e ON p.eventid = e.eventid JOIN triggers t ON e.objectid = t.triggerid JOIN functions f ON t.triggerid = f.triggerid JOIN items i ON f.itemid = i.itemid JOIN hosts h ON i.hostid = h.hostid WHERE p.clock > :from_time AND p.clock <= :to_time "
    [] OTHER ->
         " -- Consulta gen+rica SELECT h.hostid, h.name, h.status, h.available FROM hosts h WHERE 1=1 "

SqlHostClause(intent) ==
  IF intent = HOST_STATUS THEN HostClauseWhere ELSE HostClauseAnd

\* A tail without the HAVING clause, for every intent
SqlTailWithoutHaving(intent) == " ORDER BY h.name"

SqlTail(intent) ==
  CASE intent = HIGH_CPU ->
         " GROUP BY h.hostid, h.name HAVING 100 - AVG(hu.value) > :threshold ORDER BY cpu_usage DESC; "
    [] intent = MEMORY_USAGE ->
         " GROUP BY h.hostid, h.name HAVING (1 - AVG(hm.value) / AVG(ht.value)) * 100 > :threshold ORDER BY memory_usage DESC; "
    [] intent = UNAVAILABLE_SERVICES -> " ORDER BY t.lastchange DESC;"
    [] intent = ALERT_SUMMARY -> " ORDER BY p.clock DESC;"
    [] OTHER -> " ORDER BY h.name;"

\* generate_sql(query), nlp the probes of query; `now` is the clock reading of extract_time_range.
\* The result is (sql, context), or the exception raised.
generate_sql(nlp, now) ==
  LET intent == nlp.intent
      host == nlp.host
      time_range == from_period(nlp.period, now)
      context0 == PutIf(host # None, [intent |-> intent, query |-> nlp.query], "host", host)
      context1 == Put(context0, "time_range", time_range)
      context2 == PutIf(intent \in {HIGH_CPU, MEMORY_USAGE}, context1,
                        "threshold", nlp.threshold)
      sql == IF host # None
             THEN SqlHead(intent) \o SqlHostClause(intent) \o SqlTail(intent)
             ELSE SqlHead(intent) \o SqlTail(intent)
      context == PutIf(host # None, context2, "host_pattern", "%" \o host \o "%")
  IN IF time_range.raised # None
     THEN [raised |-> time_range.raised, sql |-> None, context |-> None]
     ELSE [raised |-> None, sql |-> sql, context |-> context]

(***************************************************************************)
(* NLPProcessor.generate_api_call                                          *)
(***************************************************************************)
\* A generate_api_call that lists the hosts whatever the intent
generate_host_list(nlp, now) == [raised |-> None, method |-> "host.get", params |-> <<>>]

\* generate_api_call(query), nlp the probes of query; now[1] is the clock reading of
\* extract_time_range, now[2], now[3], now[4] those of active_since,
\* active_till and description.  The result is (method, params).
generate_api_call(nlp, now) ==
  LET intent == nlp.intent
      host == nlp.host
      time_range == from_period(nlp.period, now[1])
      duration == nlp.duration
      method ==
        CASE intent = HOST_MAINTENANCE -> "maintenance.create"
          [] intent = HIGH_CPU -> "item.get"
          [] intent = HOST_STATUS -> "host.get"
          [] intent = UNAVAILABLE_SERVICES -> "problem.get"
          [] OTHER -> None
      params ==
        CASE intent = HOST_MAINTENANCE ->
               [name |-> "Manuten$&o autom@tica via Zabbia",
                active_since |-> timestamp(local(now[2])),
                active_till |-> timestamp(local(now[3])) + duration * 60,
                hostids |-> <<>>,
                timeperiods |-> <<[timeperiod_type |-> 0, period |-> duration * 60]>>,
                description |-> now[4],
                maintenance_type |-> 0]
          [] intent = HIGH_CPU ->
               LET p == [output |-> <<"itemid", "name", "lastvalue", "units">>,
                         selectHosts |-> <<"hostid", "name">>,
                         search |-> [key_ |-> "system.cpu.util"],
                         monitored |-> TRUE]
               IN IF host # None THEN Put(p, "host", host) ELSE p
          [] intent = HOST_STATUS ->
               LET p == [output |-> <<"hostid", "name", "status", "available">>,
                         selectInterfaces |-> <<"ip", "type", "useip", "main">>,
                         selectGroups |-> "extend"]
               IN IF host # None
                  THEN Put(Put(p, "search", [name |-> host]), "searchWildcardsEnabled", TRUE)
                  ELSE p
          [] intent = UNAVAILABLE_SERVICES ->
               LET p == [output |-> "extend",
                         selectHosts |-> <<"hostid", "name">>,
                         recent |-> TRUE,
                         sortfield |-> <<"eventid">>,
                         sortorder |-> "DESC"]
               IN IF host # None THEN Put(p, "host", host) ELSE p
          [] OTHER -> <<>>
  IN IF time_range.raised # None
     THEN [raised |-> time_range.raised, method |-> None, params |-> <<>>]
     ELSE [raised |-> None, method |-> method, params |-> params]

(***************************************************************************)
(* NLPProcessor.generate_graph_data                                        *)
(***************************************************************************)
Dataset(label, color) == [label |-> label, data |-> <<>>, color |-> color, fill |-> FALSE]

Title(name, host) == IF host # None THEN name \o " - " \o host ELSE name

\* generate_graph_data(query), nlp the probes of query; `now` is the clock reading of
\* extract_time_range.  The chart dictionary has no "title" key when no
\* metric keyword occurs in the text.
generate_graph_data(nlp, now) ==
  LET intent == nlp.intent
      host == nlp.host
      time_range == from_period(nlp.period, now)
      chart_data == [chartType |-> "line", labels |-> <<>>, datasets |-> <<>>]
      q == lower(nlp.query)
      chart ==
        IF Contains(q, "cpu")
        THEN Put(Put(chart_data, "title", Title("Uso de CPU", host)),
                 "datasets", <<Dataset("CPU %", "#1f77b4")>>)
        ELSE IF Contains(q, "mem^ria") \/ Contains(q, "ram")
        THEN Put(Put(chart_data, "title", Title("Uso de Mem^ria", host)),
                 "datasets", <<Dataset("Mem^ria %", "#ff7f0e")>>)
        ELSE IF Contains(q, "disco")
        THEN Put(Put(chart_data, "title", Title("Uso de Disco", host)),
                 "datasets", <<Dataset("Disco %", "#2ca02c")>>)
        ELSE chart_data
  IN IF time_range.raised # None
     THEN [raised |-> time_range.raised, chart |-> None]
     ELSE [raised |-> None, chart |-> chart]

(***************************************************************************)
(* POST /query: process_query                                              *)
(***************************************************************************)
Pad2(v) == IF v < 10 THEN "0" \o FormatInt(v) ELSE FormatInt(v)

\* datetime.strftime("%H:%M") of a wall-clock reading
HourMinute(ts) == Pad2((ts \div 3600) % 24) \o ":" \o Pad2((ts \div 60) % 60)

\* [(now - timedelta(hours=i)).strftime("%H:%M") for i in range(12, 0, -1)]
ChartLabels(now) == [k \in 1 .. 12 |-> HourMinute(local(now) - (13 - k) * 3600)]

\* What a branch of process_query leaves in the handler's locals, the calls
\* it made on api_client, and the exception it raised.
Locals(response_text, data, sql, charts, calls) ==
  [raised |-> None, response_text |-> response_text, data |-> data,
   sql |-> sql, charts |-> charts, calls |-> calls]

Raised(exc, calls) ==
  [raised |-> exc, response_text |-> "", data |-> <<>>,
   sql |-> None, charts |-> None, calls |-> calls]

\* chart_data['labels'] = ...; chart_data['datasets'][0]['data'] = ...
FillChart(chart, labels, rand) ==
  IF Len(chart.datasets) > 0
  THEN [chart EXCEPT !.labels = labels, !.datasets[1].data = rand]
  ELSE [chart EXCEPT !.labels = labels]

\* The GRAPH_REQUEST branch: chart_data is the chart generate_graph_data
\* returned, filled with labels and data
GraphAnswer(chart_data) ==
  IF "title" \notin DOMAIN chart_data THEN Raised("KeyError", <<>>)
  ELSE Locals("Aqui est@ o gr@fico solicitado para " \o chart_data.title,
              <<>>, None, <<chart_data>>, <<>>)

GraphBranch(g, labels, rand) ==
  IF g.raised # None THEN Raised(g.raised, <<>>)
  ELSE GraphAnswer(FillChart(g.chart, labels, rand))

MaintenanceBranch(nlp, api) ==
  LET host == nlp.host
      lookup == [call |-> "get_host_by_name", arg |-> host]
      create == [call |-> "set_host_maintenance", arg |-> nlp.duration * 60]
  IN IF host = None
     THEN Locals("Por favor, especifique qual host deseja colocar em manuten$&o.",
                 <<>>, None, None, <<>>)
     ELSE IF api.lookup = "error"
     THEN Raised("ZabbixAPIException", <<lookup>>)
     ELSE IF api.lookup = "not_found"
     THEN Locals("Host '" \o host \o "' n&o encontrado no Zabbix.",
                 <<>>, None, None, <<lookup>>)
     ELSE IF api.create = "created"
     THEN Locals("Host " \o host \o " colocado em manuten$&o por "
                   \o FormatInt(nlp.duration) \o " minutos.",
                 [maintenance_id |-> "1", host |-> host, duration_minutes |-> nlp.duration],
                 None, None, <<lookup, create>>)
     ELSE Locals("Erro ao colocar host " \o host \o " em manuten$&o.",
                 <<>>, None, None, <<lookup, create>>)

\* The branch of the six SQL intents: s is what generate_sql returned
SqlBranch(nlp, s) ==
  LET intent == nlp.intent
  IN IF s.raised # None THEN Raised(s.raised, <<>>)
     ELSE CASE intent = HIGH_CPU ->
                 LET threshold == IF "threshold" \in DOMAIN s.context
                                  THEN s.context.threshold ELSE 80
                 IN Locals("Encontrados 3 hosts com CPU acima de "
                             \o FormatInt(threshold) \o "%.",
                           [hosts |-> <<"web01.example.com", "web02.example.com",
                                        "db01.example.com">>,
                            count |-> 3, threshold |-> threshold],
                           s.sql, None, <<>>)
            [] intent = HOST_STATUS ->
                 Locals("Status atual dos hosts: 3 dispon!veis, 1 indispon!veis.",
                        [hosts |-> <<"web01.example.com", "web02.example.com",
                                     "db01.example.com", "monitor01.example.com">>,
                         count |-> 4, available |-> 3, unavailable |-> 1],
                        s.sql, None, <<>>)
            [] intent = UNAVAILABLE_SERVICES ->
                 Locals("H@ 2 servi$os indispon!veis atualmente.",
                        [services |-> <<"HTTP Service", "MySQL Service">>, count |-> 2],
                        s.sql, None, <<>>)
            [] intent = HOST_UPTIME ->
                 Locals("Uptime para "
                          \o (IF nlp.host # None THEN nlp.host ELSE "todos os hosts") \o ":",
                        [hosts |-> <<"web01.example.com", "web02.example.com",
                                     "db01.example.com">>],
                        s.sql, None, <<>>)
            [] intent = ALERT_SUMMARY ->
                 Locals("Resumo de alertas: 3 problemas ativos, incluindo 1 cr!ticos.",
                        [alerts |-> <<"CPU alto", "Disco cheio", "Servi$o HTTP indispon!vel">>,
                         count |-> 3,
                         by_severity |-> [Disaster |-> 1, High |-> 1, Average |-> 1]],
                        s.sql, None, <<>>)
            [] OTHER -> Locals("", <<>>, s.sql, None, <<>>)

\* The fallback branch: c is what generate_api_call returned
FallbackBranch(c) ==
     IF c.raised # None THEN Raised(c.raised, <<>>)
     ELSE IF c.method # None
     THEN Locals("Encontrados 3 hosts no sistema.",
                 [hosts |-> <<"web01.example.com", "web02.example.com",
                              "db01.example.com">>, count |-> 3],
                 None, None, <<>>)
     ELSE Locals("N&o consegui entender sua consulta. Pode reformular de outra forma?",
                 <<>>, None, None, <<>>)

ZabbiaResponse(response, data, sql, charts, conversation_id) ==
  [status |-> 200, response |-> response, data |-> data, sql |-> sql,
   charts |-> charts, conversation_id |-> conversation_id, detail |-> None]

HTTPException(status_code, detail) ==
  [status |-> status_code, response |-> None, data |-> None, sql |-> None,
   charts |-> None, conversation_id |-> None, detail |-> detail]

\* The branch process_query takes once detect_intent, extract_host and
\* extract_time_range have returned: time_range is the window of line 136
Branch(nlp, time_range, now, rand, api) ==
  LET intent == nlp.intent
  IN IF time_range.raised # None THEN Raised(time_range.raised, <<>>)
     ELSE IF intent = GRAPH_REQUEST
     THEN GraphBranch(generate_graph_data(nlp, now[3]), ChartLabels(now[4]), rand)
     ELSE IF intent = HOST_MAINTENANCE THEN MaintenanceBranch(nlp, api)
     ELSE IF intent \in {HIGH_CPU, MEMORY_USAGE, HOST_STATUS, HOST_UPTIME,
                         UNAVAILABLE_SERVICES, ALERT_SUMMARY}
     THEN SqlBranch(nlp, generate_sql(nlp, now[3]))
     ELSE FallbackBranch(generate_api_call(nlp, SubSeq(now, 3, 6)))

\* str(e) of the exception the handler catches; what a ZabbixAPIException
\* says is api_client's
Message(exc) ==
  CASE exc = "OverflowError" -> "date value out of range"
    [] exc = "KeyError" -> "'title'"
    [] OTHER -> exc

\* The end of process_query: the response built from the branch's locals,
\* or the HTTPException of the except clause
Respond(locals, request, environment, now) ==
  LET processing_time == now[5] - now[1]
      response_text ==
        IF environment # "production"
        THEN locals.response_text \o "\n\nConsulta processada em "
               \o FormatInt(processing_time) \o ".00 segundos."
        ELSE locals.response_text
      conversation_id ==
        IF request.conversation_id # None THEN request.conversation_id
        ELSE "zabbia-" \o FormatInt(now[6])
  IN [calls |-> locals.calls,
      http |-> IF locals.raised # None
               THEN HTTPException(500, "Erro ao processar consulta: " \o Message(locals.raised))
               ELSE ZabbiaResponse(response_text, locals.data, locals.sql,
                                   locals.charts, conversation_id)]

\* process_query(request), nlp the probes of request.query.  The clock is
\* read at now[1] (start_time), now[2] (extract_time_range), now[3] (the
\* extract_time_range of the generate_* call), now[4] (the chart labels),
\* now[5] (processing_time) and now[6] (conversation_id); rand is the list
\* random.randint fills, api what api_client answers.  The result is the
\* HTTP response and the calls made on api_client.
process_query(nlp, request, environment, now, rand, api) ==
  Respond(Branch(nlp, from_period(nlp.period, now[2]), now, rand, api),
          request, environment, now)

(***************************************************************************)
(* Inputs                                                                  *)
(***************************************************************************)
Phrases ==
  {"oi", "status dos hosts", "host app01", "Servidor WEB-1", "cpu",
   "quais hosts est&o com cpu acima de 90%", "nas |ltimas 3 horas",
   "|ltimos 800000 dias", "por 2 horas", "manuten$&o", "colocar em manuten$&o",
   "colocar host app01 em manuten$&o", "gerar gr@fico", "mem^ria", "disco",
   "uso de", "uptime", "servi$os offline", "resumo de alertas"}

\* Texts of one phrase each, for the threshold, duration and period phrases
Singles ==
  {"cpu alta", "cpu acima de 90", "cpu acima de 90 ", "mais 7%",
   "sem dura$&o", "por 30 minutos", "durante 3 dias", "por 5 m", "durante 015d",
   "por 5 meses", "por duas horas", "por 2 horas e durante 3 dias",
   "|ltimos 15 minutos", "|ltima 1 hora", "|ltimos 007 dias", "|ltimos 2d",
   "|ltimos 0 dias", "|ltimas 2 semanas", "|ltimos 5 meses"}

\* The texts of at most two phrases, and the single ones
Texts ==
  {""} \cup Phrases \cup Singles
    \cup {p \o " " \o q : p \in Phrases, q \in Phrases}

\* Period tokens handed to TimeRange.from_period
Periods ==
  {n \o u \o x : n \in {"", "0", "3", "007", "24", "2000000000"},
                 u \in {"", "m", "h", "d", "H", "s"},
                 x \in {"", "x"}}

\* The defaults a caller hands to extract_threshold and extract_duration
Defaults == {0, 60, 80}

\* The clock: a call that starts at NowBase reads the clock at
\* non-decreasing instants, at most MaxTick seconds later.
MaxTick == 1
Clock == NowBase .. NowBase + MaxTick

Readings(n) ==
  {r \in [1 .. n -> Clock] : \A i \in 1 .. n - 1 : r[i] <= r[i + 1]}

\* Outcomes of random.randint(10, 90) for _ in range(12)
RandomLists == {[k \in 1 .. 12 |-> 10], [k \in 1 .. 12 |-> IF k = 1 THEN 90 ELSE 10]}

\* Answers of api_client.get_host_by_name and api_client.set_host_maintenance
ApiAnswers ==
  {[lookup |-> "error", create |-> "none"],
   [lookup |-> "not_found", create |-> "none"],
   [lookup |-> "found", create |-> "created"],
   [lookup |-> "found", create |-> "failed"]}
NoAnswer == [lookup |-> "none", create |-> "none"]

\* The process_query calls that can be in flight at once
NCalls == 2
CallIds == 1 .. NCalls

\* The texts of the calls in flight: one per branch of process_query, and
\* one whose time window does not resolve
ConcurrentTexts ==
  {"gerar gr@fico cpu", "colocar host app01 em manuten$&o", "status dos hosts",
   "oi", "|ltimos 800000 dias"}

\* No call: the locals of process_query before a request arrives
NoCall ==
  [pc |-> "idle", query |-> "", probes |-> None, intent |-> None, host |-> None,
   now |-> <<>>,
   synth |-> None, locals |-> None, rand |-> <<>>, api |-> NoAnswer,
   result |-> None, overlapped |-> FALSE, windows |-> <<>>]

(***************************************************************************)
(* State                                                                   *)
(***************************************************************************)
VARIABLES
  environment,  \* settings.environment
  nlp,          \* the text submitted and what the probes return for it
  op,           \* the operation that returned last
  clock,        \* the clock readings it took
  ret,          \* what it returned
  api_calls,    \* the calls it made on api_client
  prev,         \* the response to the same request at the same clock readings
  calls,        \* the locals of the process_query calls in flight
  wall          \* the wall clock the calls in flight read

vars == <<environment, tz, nlp, op, clock, ret, api_calls, prev, calls, wall>>

Init ==
  /\ environment \in {"development", "production"}
  /\ tz \in Zones
  /\ nlp = None
  /\ op = "none"
  /\ clock = <<>>
  /\ ret = None
  /\ api_calls = <<>>
  /\ prev = <<>>
  /\ calls = [c \in CallIds |-> NoCall]
  /\ wall = NowBase

Idle == op = "none"
Submitted == op = "submitted"

\* A text arrives; the probes are pure, their results are kept with it
Submit ==
  /\ Idle
  /\ \E q \in Texts : nlp' = Probes(q)
  /\ op' = "submitted"
  /\ UNCHANGED <<environment, tz, clock, ret, api_calls, prev, calls, wall>>

Return(name, now, value) ==
  /\ op' = name
  /\ clock' = now
  /\ ret' = value
  /\ UNCHANGED <<environment, tz, nlp, api_calls, prev, calls, wall>>

DetectIntent ==
  /\ Submitted
  /\ Return("detect_intent", <<>>, nlp.intent)

FromPeriod ==
  /\ Idle
  /\ \E period \in Periods, now \in Readings(1) :
       /\ nlp' = [query |-> period]
       /\ op' = "from_period"
       /\ clock' = now
       /\ ret' = from_period(period, now[1])
       /\ UNCHANGED <<environment, tz, api_calls, prev, calls, wall>>

\* extract_threshold(query, default); the caller keeps the default it gave
ExtractThreshold ==
  /\ Submitted
  /\ \E default \in Defaults :
       Return("extract_threshold", <<>>,
              [default |-> default, value |-> extract_threshold(nlp.query, default)])

\* extract_duration(query, default)
ExtractDuration ==
  /\ Submitted
  /\ \E default \in Defaults :
       Return("extract_duration", <<>>,
              [default |-> default, value |-> extract_duration(nlp.query, default)])

ExtractTimeRange ==
  /\ Submitted
  /\ \E now \in Readings(1) :
       Return("extract_time_range", now, from_period(nlp.period, now[1]))

GenerateSql ==
  /\ Submitted
  /\ \E now \in Readings(1) :
       Return("generate_sql", now, generate_sql(nlp, now[1]))

GenerateApiCall ==
  /\ Submitted
  /\ \E now \in Readings(4) :
       Return("generate_api_call", now, generate_api_call(nlp, now))

GenerateGraphData ==
  /\ Submitted
  /\ \E now \in Readings(1) :
       Return("generate_graph_data", now, generate_graph_data(nlp, now[1]))

\* random.randint is drawn in the GRAPH_REQUEST branch alone, and api_client
\* answers in the HOST_MAINTENANCE branch alone, when a host was extracted.
Draws == IF nlp.intent = GRAPH_REQUEST THEN RandomLists ELSE {<<>>}
Answers ==
  IF nlp.intent = HOST_MAINTENANCE /\ nlp.host # None THEN ApiAnswers ELSE {NoAnswer}

Request == [query |-> nlp.query, conversation_id |-> None]

\* The handler returns r: the HTTP response goes to the client, r.calls are
\* the calls it made on api_client
Answer(r) ==
  /\ ret' = r.http
  /\ api_calls' = r.calls

ProcessQuery ==
  /\ Submitted
  /\ \E now \in Readings(6), rand \in Draws, api \in Answers :
       /\ Answer(process_query(nlp, Request, environment, now, rand, api))
       /\ op' = "process_query"
       /\ clock' = now
       /\ UNCHANGED <<environment, tz, nlp, prev, calls, wall>>

\* The same request again, at the same clock readings
Resubmit ==
  /\ op = "process_query"
  /\ prev = <<>>
  /\ \E rand \in Draws, api \in Answers :
       /\ Answer(process_query(nlp, Request, environment, clock, rand, api))
       /\ prev' = <<ret>>
       /\ UNCHANGED <<environment, tz, nlp, op, clock, calls, wall>>

\* The caller consumes the result
Discard ==
  /\ op \notin {"none", "submitted"}
  /\ nlp' = None
  /\ op' = "none"
  /\ clock' = <<>>
  /\ ret' = None
  /\ api_calls' = <<>>
  /\ prev' = <<>>
  /\ UNCHANGED <<environment, tz, calls, wall>>

Next ==
  \/ Submit
  \/ DetectIntent
  \/ FromPeriod
  \/ ExtractThreshold
  \/ ExtractDuration
  \/ ExtractTimeRange
  \/ GenerateSql
  \/ GenerateApiCall
  \/ GenerateGraphData
  \/ ProcessQuery
  \/ Resubmit
  \/ Discard

Spec == Init /\ [][Next]_vars

(***************************************************************************)
(* Concurrent calls of process_query on the global nlp_processor           *)
(***************************************************************************)
\* The steps of a call are the statements of process_query; the steps of
\* different calls interleave freely.  nlp_processor is read only: its
\* tables are the definitions intent_patterns, host_pattern,
\* threshold_pattern, period_pattern and duration_pattern, which no step
\* assigns.  A call keeps what it computed in its own locals, calls[c].

InFlight(c) == calls[c].pc \notin {"idle", "done"}

\* Call c takes a step that leaves its locals as `locals`; every other call
\* in flight has then overlapped with it.
Step(c, locals) ==
  /\ calls' = [d \in CallIds |->
                 IF d = c THEN [locals EXCEPT !.overlapped = @ \/ \E e \in CallIds \ {c} : InFlight(e)]
                 ELSE IF InFlight(d) THEN [calls[d] EXCEPT !.overlapped = TRUE]
                 ELSE calls[d]]
  /\ UNCHANGED <<environment, tz, nlp, op, clock, ret, api_calls, prev, wall>>

\* Intent and host kept in attributes of the shared nlp_processor instead of
\* the handler's locals: another call that has probed has overwritten them.
SharedNlp(c) ==
  IF calls[(c % NCalls) + 1].pc \in {"window", "synth", "act", "respond", "done"}
  THEN [calls[c].probes EXCEPT !.intent = calls[(c % NCalls) + 1].intent,
                              !.host = calls[(c % NCalls) + 1].host]
  ELSE [calls[c].probes EXCEPT !.intent = calls[c].intent, !.host = calls[c].host]

\* What the probes return to the handler of call c: intent and host are the
\* handler's locals, the rest is probed inside the branches
LocalNlp(c) ==
  [calls[c].probes EXCEPT !.intent = calls[c].intent, !.host = calls[c].host]

\* A request arrives; the probes are pure, their results for its text are
\* kept with it
Receive(c) ==
  /\ calls[c].pc = "idle"
  /\ \E q \in ConcurrentTexts :
       Step(c, [NoCall EXCEPT !.pc = "start", !.query = q, !.probes = Probes(q)])

\* start_time = time()
Start(c) ==
  /\ calls[c].pc = "start"
  /\ Step(c, [calls[c] EXCEPT !.pc = "detect", !.now = <<wall>>])

\* intent = nlp_processor.detect_intent(query)
Detect(c) ==
  /\ calls[c].pc = "detect"
  /\ Step(c, [calls[c] EXCEPT !.pc = "host", !.intent = calls[c].probes.intent])

\* host = nlp_processor.extract_host(query)
Host(c) ==
  /\ calls[c].pc = "host"
  /\ Step(c, [calls[c] EXCEPT !.pc = "window", !.host = calls[c].probes.host])

\* The locals after time_range = nlp_processor.extract_time_range(query),
\* which returned or raised time_range; windows keeps the clock reading of
\* every resolution of the window the call makes
AfterWindow(call, time_range, now) ==
  IF time_range.raised # None
  THEN [call EXCEPT !.pc = "respond", !.now = @ \o <<now, now, now>>,
                    !.windows = @ \o <<now>>,
                    !.locals = Raised(time_range.raised, <<>>)]
  ELSE [call EXCEPT !.pc = "synth", !.now = @ \o <<now>>, !.windows = @ \o <<now>>]

Window(c) ==
  /\ calls[c].pc = "window"
  /\ Step(c, AfterWindow(calls[c], from_period(calls[c].probes.period, wall), wall))

SqlIntents ==
  {HIGH_CPU, MEMORY_USAGE, HOST_STATUS, HOST_UPTIME, UNAVAILABLE_SERVICES, ALERT_SUMMARY}

\* The generate_* call of the branch the intent selects; the
\* HOST_MAINTENANCE branch makes none
Synth(intent, probes, now) ==
  IF intent = GRAPH_REQUEST THEN generate_graph_data(probes, now)
  ELSE IF intent = HOST_MAINTENANCE THEN None
  ELSE IF intent \in SqlIntents THEN generate_sql(probes, now)
  ELSE generate_api_call(probes, <<now, now, now, now>>)

\* generate_sql, generate_api_call and generate_graph_data each call
\* extract_time_range(query) again
Resolved(intent, now) == IF intent = HOST_MAINTENANCE THEN <<>> ELSE <<now>>

Synthesize(c) ==
  /\ calls[c].pc = "synth"
  /\ Step(c, [calls[c] EXCEPT !.pc = "act", !.now = @ \o <<wall>>,
                              !.windows = @ \o Resolved(calls[c].intent, wall),
                              !.synth = Synth(calls[c].intent, calls[c].probes, wall)])

\* The rest of the branch: the chart filled in, api_client called, the
\* simulated data and the narrative
Act(intent, probes, synth, now, rand, api) ==
  IF intent = GRAPH_REQUEST THEN GraphBranch(synth, ChartLabels(now), rand)
  ELSE IF intent = HOST_MAINTENANCE THEN MaintenanceBranch(probes, api)
  ELSE IF intent \in SqlIntents THEN SqlBranch(probes, synth)
  ELSE FallbackBranch(synth)

Finish(c) ==
  /\ calls[c].pc = "act"
  /\ \E rand \in (IF calls[c].intent = GRAPH_REQUEST THEN RandomLists ELSE {<<>>}),
        api \in (IF calls[c].intent = HOST_MAINTENANCE /\ calls[c].host # None
                 THEN ApiAnswers ELSE {NoAnswer}) :
       Step(c, [calls[c] EXCEPT !.pc = "respond", !.now = @ \o <<wall>>,
                                !.rand = rand, !.api = api,
                                !.locals = Act(calls[c].intent, LocalNlp(c), calls[c].synth,
                                               wall, rand, api)])

\* processing_time, the response and its conversation_id
Reply(c) ==
  /\ calls[c].pc = "respond"
  /\ Step(c, [calls[c] EXCEPT !.pc = "done", !.now = @ \o <<wall, wall>>,
                              !.result = Respond(calls[c].locals,
                                                 [query |-> calls[c].query, conversation_id |-> None],
                                                 environment, calls[c].now \o <<wall, wall>>)])

\* The response is sent
Close(c) ==
  /\ calls[c].pc = "done"
  /\ Step(c, NoCall)

\* Time passes
Tick ==
  /\ wall < NowBase + MaxTick
  /\ wall' = wall + 1
  /\ UNCHANGED <<environment, tz, nlp, op, clock, ret, api_calls, prev, calls>>

NextConcurrent ==
  \/ \E c \in CallIds : Receive(c)
  \/ \E c \in CallIds : Start(c)
  \/ \E c \in CallIds : Detect(c)
  \/ \E c \in CallIds : Host(c)
  \/ \E c \in CallIds : Window(c)
  \/ \E c \in CallIds : Synthesize(c)
  \/ \E c \in CallIds : Finish(c)
  \/ \E c \in CallIds : Reply(c)
  \/ \E c \in CallIds : Close(c)
  \/ Tick

SpecConcurrent == Init /\ [][NextConcurrent]_vars


(***************************************************************************)
(* ZabbixService.get_hosts_with_high_cpu                                   *)
(***************************************************************************)
\* What the Zabbix API answers: host.get, item.get for each host and
\* history.get for each item; a history value is the number float() reads
\* from the record's 'value'
Histories == {<<>>, <<50>>, <<-20>>, <<50, 90>>, <<90, 50>>}

ZabbixAnswers ==
  {[hosts |-> <<>>, items |-> [h \in {"h1", "h2"} |-> <<>>],
    history |-> [i \in {"i1", "i2", "i3"} |-> <<>>]]}
  \cup
  {[hosts |-> <<"h1", "h2">>, items |-> [h1 |-> a, h2 |-> b],
    history |-> [i1 |-> x, i2 |-> y, i3 |-> z]] :
     a \in {<<>>, <<"i1">>, <<"i1", "i2">>}, b \in {<<>>, <<"i3">>},
     x \in Histories, y \in Histories, z \in {<<>>, <<90>>}}

Thresholds == {-10, 50, 80}
CpuPeriods == {"1h", "7d", "30m"}

\* period_dict.get(period, 3600)
period_seconds(period) ==
  CASE period = "1h" -> 3600
    [] period = "3h" -> 10800
    [] period = "6h" -> 21600
    [] period = "12h" -> 43200
    [] period = "24h" -> 86400
    [] period = "7d" -> 604800
    [] OTHER -> 3600

\* max_value = 0, then max_value = max(max_value, value) for each record:
\* max() keeps max_value, the int 0 at first, unless the value is greater
RECURSIVE max_history(_, _, _)
max_history(history, i, max_value) ==
  IF i > Len(history) THEN max_value
  ELSE max_history(history, i + 1,
                   IF history[i] > max_value.n
                   THEN [n |-> history[i], float |-> TRUE]
                   ELSE max_value)

\* str() of a float holding a whole number
FloatStr(v) ==
  IF v < 0 THEN "-" \o FormatInt(0 - v) \o ".0" ELSE FormatInt(v) \o ".0"

\* str(max_value)
MaxStr(max_value) ==
  IF max_value.float THEN FloatStr(max_value.n) ELSE FormatInt(max_value.n)

\* The test on the maximum of an item's history
above(max_value, threshold) == max_value > threshold

\* The loop over the host's CPU items, from the k-th on: the host's copy for
\* the first item above the threshold (break), nothing when there is none
RECURSIVE cpu_items_from(_, _, _, _, _)
cpu_items_from(host, cpu_items, k, zabbix, threshold) ==
  IF k > Len(cpu_items) THEN <<>>
  ELSE LET history == zabbix.history[cpu_items[k]]
           max_value == max_history(history, 1, [n |-> 0, float |-> FALSE])
       IN IF history # <<>> /\ above(max_value.n, threshold)
          THEN <<[hostid |-> host, cpu_max |-> MaxStr(max_value),
                  item_name |-> cpu_items[k]]>>
          ELSE cpu_items_from(host, cpu_items, k + 1, zabbix, threshold)

\* The loop over the hosts, from the j-th on
RECURSIVE hosts_from(_, _, _)
hosts_from(j, zabbix, threshold) ==
  IF j > Len(zabbix.hosts) THEN <<>>
  ELSE cpu_items_from(zabbix.hosts[j], zabbix.items[zabbix.hosts[j]], 1, zabbix, threshold)
         \o hosts_from(j + 1, zabbix, threshold)

\* get_hosts_with_high_cpu(threshold, period), time.time() reading now; the
\* histories are asked from time_from on
get_hosts_with_high_cpu(zabbix, threshold, period, now) ==
  [time_from |-> now - period_seconds(period),
   result |-> hosts_from(1, zabbix, threshold)]

GetHostsWithHighCpu ==
  /\ Idle
  /\ \E zabbix \in ZabbixAnswers, threshold \in Thresholds, period \in CpuPeriods,
        now \in Readings(1) :
       /\ nlp' = [zabbix |-> zabbix, threshold |-> threshold, period |-> period]
       /\ op' = "get_hosts_with_high_cpu"
       /\ clock' = now
       /\ ret' = get_hosts_with_high_cpu(zabbix, threshold, period, now[1])
       /\ UNCHANGED <<environment, tz, api_calls, prev, calls, wall>>

(***************************************************************************)
(* The metrics router, mounted at /api/metrics                             *)
(***************************************************************************)
\* The routes in the order of their decorators
routes ==
  <<[path |-> "/overview", endpoint |-> "get_metrics_overview"],
    [path |-> "/{host}", endpoint |-> "get_host_metrics"],
    [path |-> "/high-cpu", endpoint |-> "get_high_cpu_hosts"]>>

\* The route's path matches the request's: a path parameter stands for one
\* non-empty segment
path_matches(template, path) ==
  IF Len(template) > 1 /\ CharAt(template, 2) = "{"
  THEN /\ Len(path) > 1
       /\ CharAt(path, 1) = "/"
       /\ \A i \in 2 .. Len(path) : CharAt(path, i) # "/"
  ELSE path = template

\* The router tries the routes in order; the first that matches handles the
\* request
route_of(path) ==
  LET matching == {k \in DOMAIN routes : path_matches(routes[k].path, path)}
  IN IF matching = {} THEN None ELSE routes[Min(matching)].endpoint

Handled(endpoint, status, body, service_calls) ==
  [endpoint |-> endpoint, status |-> status, body |-> body, calls |-> service_calls]

ServiceCall(name, arg) == [call |-> name, arg |-> arg]

\* get_metrics_overview: any exception of the service is answered 500
get_metrics_overview(service) ==
  IF service.overview = "error"
  THEN Handled("get_metrics_overview", 500, [detail |-> "Erro ao obter m+tricas"],
             <<ServiceCall("get_active_hosts", <<>>)>>)
  ELSE Handled("get_metrics_overview", 200, [overview |-> "overview"],
             <<ServiceCall("get_active_hosts", <<>>), ServiceCall("get_cpu_metrics", 24),
               ServiceCall("get_memory_metrics", 24),
               ServiceCall("get_availability_metrics", 24),
               ServiceCall("get_average_uptime", <<>>),
               ServiceCall("get_hosts_in_alert", <<>>)>>)

\* get_host_metrics(host) without from and to: the last 24 hours on the
\* local clock, read at now[1] and now[2]
get_host_metrics(host, service, now) ==
  CASE service.details = "error" ->
         Handled("get_host_metrics", 500, [detail |-> "Erro ao obter m+tricas do host"],
               <<ServiceCall("get_host_details", host)>>)
    [] service.details = "not_found" ->
         Handled("get_host_metrics", 404, [detail |-> "Host '" \o host \o "' n&o encontrado"],
               <<ServiceCall("get_host_details", host)>>)
    [] service.details = "found" /\ service.metrics = "error" ->
         Handled("get_host_metrics", 500, [detail |-> "Erro ao obter m+tricas do host"],
               <<ServiceCall("get_host_details", host), ServiceCall("get_host_metrics", host)>>)
    [] OTHER ->
         Handled("get_host_metrics", 200,
               [host |-> host, metrics |-> "metrics",
                period |-> [from |-> local(now[1]) - 24 * 3600, to |-> local(now[2])]],
               <<ServiceCall("get_host_details", host), ServiceCall("get_host_metrics", host)>>)

\* get_high_cpu_hosts(threshold, period_minutes): Query(80, ge=1, le=100) and
\* Query(30, ge=5, le=1440)
get_high_cpu_hosts(query, service) ==
  CASE query.threshold < 1 \/ query.threshold > 100
       \/ query.period_minutes < 5 \/ query.period_minutes > 1440 ->
         Handled("get_high_cpu_hosts", 422, [detail |-> "validation"], <<>>)
    [] service.high_cpu.raised ->
         Handled("get_high_cpu_hosts", 500, [detail |-> "Erro ao obter hosts com CPU alta"],
               <<ServiceCall("get_hosts_with_high_cpu", query)>>)
    [] OTHER ->
         Handled("get_high_cpu_hosts", 200, [hosts |-> service.high_cpu.hosts, query |-> query],
               <<ServiceCall("get_hosts_with_high_cpu", query)>>)

\* GET /api/metrics<path>?threshold=..&period_minutes=..
metrics_get(path, query, service, now) ==
  CASE route_of(path) = "get_metrics_overview" -> get_metrics_overview(service)
    [] route_of(path) = "get_host_metrics" ->
         get_host_metrics(SubSeq(path, 2, Len(path)), service, now)
    [] route_of(path) = "get_high_cpu_hosts" -> get_high_cpu_hosts(query, service)
    [] OTHER -> Handled(None, 404, [detail |-> "Not Found"], <<>>)

MetricsPaths == {"/overview", "/high-cpu", "/web01", "/"}
HighCpuQueries ==
  {[threshold |-> t, period_minutes |-> p] : t \in {1, 85, 100}, p \in {5, 15, 1440}}

\* What the ZabbixService the handlers depend on answers
ServiceAnswers ==
  [overview : {"ok", "error"}, details : {"found", "not_found", "error"},
   metrics : {"ok", "error"}, high_cpu : [raised : BOOLEAN, hosts : {<<"web01", "app01">>, <<>>}]]

MetricsGet ==
  /\ Idle
  /\ \E path \in MetricsPaths, query \in HighCpuQueries, service \in ServiceAnswers,
        now \in Readings(2) :
       /\ nlp' = [path |-> path, query |-> query, service |-> service]
       /\ op' = "metrics_get"
       /\ clock' = now
       /\ ret' = metrics_get(path, query, service, now)
       /\ UNCHANGED <<environment, tz, api_calls, prev, calls, wall>>


(***************************************************************************)
(* ZabbixAPIClient, the JSON-RPC client of backend/zabbix_api.py           *)
(***************************************************************************)
\* The api_token arguments of the constructor: none, the empty string, a token
ApiTokens == {None, "", "token"}

\* What the server does with one request: it answers with a result, answers
\* with an error, or the request or the parsing of its answer fails
HttpAnswers == {"result", "error", "exception"}

\* The methods the callers pass to api_call (with the params of a read)
Methods == {"host.get", "user.login"}

\* The requests one client is followed for
MaxRequests == 3

\* One request posted on the session: the JSON-RPC method, the "auth" member
\* of the payload, the credentials among the params and the Authorization
\* header of the session (the session's headers hold Content-Type alone)
JsonRpcRequest(method, auth, user, password) ==
  [method |-> method, auth |-> auth, user |-> user, password |-> password,
   authorization |-> None]

\* ZabbixAPIClient.login(self) when the server answers with answer: the
\* client afterwards, the request sent and the value returned
login(self, answer) ==
  [self |-> IF answer = "result" THEN [self EXCEPT !.auth_token = "session"] ELSE self,
   sent |-> <<JsonRpcRequest("user.login", None, self.username, self.password)>>,
   result |-> answer = "result"]

\* ZabbixAPIClient.__init__ with the settings' credentials
ZabbixAPIClient(api_token, answer) ==
  LET self == [api_token |-> api_token, auth_token |-> None,
               username |-> "Admin", password |-> "zabbix"]
  IN IF api_token \in {None, ""}
     THEN login(self, answer)
     ELSE [self |-> self, sent |-> <<>>, result |-> TRUE]

\* ZabbixAPIClient.api_call(self, method); answers[1] is the server's answer
\* to the login the call may make, answers[2] its answer to the call itself
api_call(self, method, answers) ==
  LET logs_in == self.auth_token = None /\ method # "user.login"
      l == IF logs_in THEN login(self, answers[1])
           ELSE [self |-> self, sent |-> <<>>, result |-> TRUE]
      auth == IF method # "user.login" /\ l.self.auth_token # None
              THEN l.self.auth_token ELSE None
  IN IF ~l.result
     THEN [self |-> l.self, sent |-> l.sent, raised |-> "ZabbixAPIException"]
     ELSE [self |-> l.self,
           sent |-> l.sent \o <<JsonRpcRequest(method, auth, None, None)>>,
           raised |-> IF answers[2] = "result" THEN None ELSE "ZabbixAPIException"]

\* A client is constructed
NewZabbixAPIClient ==
  /\ Idle
  /\ \E api_token \in ApiTokens, answer \in HttpAnswers :
       LET c == ZabbixAPIClient(api_token, answer)
       IN /\ nlp' = c.self
          /\ op' = "ZabbixAPIClient"
          /\ api_calls' = c.sent
          /\ ret' = [raised |-> None]
          /\ UNCHANGED <<environment, tz, clock, prev, calls, wall>>

\* api_call on the client constructed
ApiCall ==
  /\ op = "ZabbixAPIClient"
  /\ Len(api_calls) < MaxRequests
  /\ \E method \in Methods, answers \in HttpAnswers \X HttpAnswers :
       LET c == api_call(nlp, method, answers)
       IN /\ nlp' = c.self
          /\ api_calls' = api_calls \o c.sent
          /\ ret' = [raised |-> c.raised]
          /\ UNCHANGED <<environment, tz, op, clock, prev, calls, wall>>
NextBackend ==
  \/ GetHostsWithHighCpu
  \/ MetricsGet
  \/ NewZabbixAPIClient
  \/ ApiCall
  \/ Discard

SpecBackend == Init /\ [][NextBackend]_vars

(***************************************************************************)
(* Properties                                                              *)
(***************************************************************************)
\* Some pattern of the i-th entry of the table matches q
Matches(i, q) ==
  \E j \in DOMAIN intent_patterns[i].patterns : Search(intent_patterns[i].patterns[j], q)

MatchingEntries(q) == {i \in DOMAIN intent_patterns : Matches(i, q)}

DeclarationOrder ==
  <<HIGH_CPU, MEMORY_USAGE, DISK_USAGE, HOST_STATUS, HOST_UPTIME,
    UNAVAILABLE_SERVICES, ALERT_SUMMARY, GRAPH_REQUEST, HOST_MAINTENANCE>>

IntentSet ==
  {HIGH_CPU, MEMORY_USAGE, DISK_USAGE, HOST_STATUS, HOST_UPTIME, UNAVAILABLE_SERVICES,
   ALERT_SUMMARY, GRAPH_REQUEST, HOST_MAINTENANCE, GENERAL_QUERY, UNKNOWN}

\* re.fullmatch(r, s) is not None
FullMatch(r, s) == Len(s) \in Ends(r, s, {0})

StartsWith(s, w) == Len(w) <= Len(s) /\ SubSeq(s, 1, Len(w)) = w

\* C1: detect_intent returns the first intent, in the declaration order
\* HIGH_CPU, MEMORY_USAGE, DISK_USAGE, HOST_STATUS, HOST_UPTIME,
\* UNAVAILABLE_SERVICES, ALERT_SUMMARY, GRAPH_REQUEST, HOST_MAINTENANCE, that
\* has a pattern matching the lower-cased text; a text matching patterns of
\* two intents is classified as the earlier-declared one.
C1_FirstDeclaredIntent ==
  op = "detect_intent" =>
    /\ [i \in DOMAIN intent_patterns |-> intent_patterns[i].intent] = DeclarationOrder
    /\ \A i \in MatchingEntries(lower(nlp.query)) :
         (\A k \in 1 .. i - 1 : ~Matches(k, lower(nlp.query))) => ret = DeclarationOrder[i]

\* C1 witness: a text that matches HOST_STATUS (4th) and HOST_MAINTENANCE
\* (9th) has been classified HOST_STATUS
C1_TwoIntentsMatch ==
  /\ op = "detect_intent"
  /\ {4, 9} \subseteq MatchingEntries(lower(nlp.query))
  /\ \A k \in 1 .. 3 : ~Matches(k, lower(nlp.query))
  /\ ret = HOST_STATUS

\* C2: for every text process_query completes with a well-formed result
\* (narrative text with an artifact or none); no text ends in an exception or
\* an error response.
C2_NeverAnErrorResponse ==
  op = "process_query" => ret.status = 200 /\ ret.response # None

\* C3: a HOST_MAINTENANCE text without a host gets a normal response with no
\* SQL and no chart, whose narrative asks for the host, and no call is made
\* on api_client.
C3_AsksForTheHost ==
  (op = "process_query" /\ nlp.intent = HOST_MAINTENANCE /\ nlp.host = None) =>
    /\ ret.status = 200
    /\ StartsWith(ret.response,
                  "Por favor, especifique qual host deseja colocar em manuten$&o.")
    /\ ret.sql = None
    /\ ret.charts = None
    /\ api_calls = <<>>

\* C3, where the time window of the text resolves: the response asks for
\* the host and nothing was looked up or created.
C3_AsksForTheHostWhenWindowResolves ==
  (/\ op = "process_query" /\ nlp.intent = HOST_MAINTENANCE /\ nlp.host = None
   /\ from_period(nlp.period, clock[2]).raised = None) =>
    /\ ret.status = 200
    /\ StartsWith(ret.response,
                  "Por favor, especifique qual host deseja colocar em manuten$&o.")
    /\ ret.sql = None
    /\ ret.charts = None
    /\ api_calls = <<>>

\* C4: detect_intent returns a member of QueryIntent, GENERAL_QUERY exactly
\* when no pattern of any intent matches the lower-cased text, and never
\* UNKNOWN.
C4_GeneralQueryIffNoMatch ==
  op = "detect_intent" =>
    /\ ret \in IntentSet
    /\ ret # UNKNOWN
    /\ ret = GENERAL_QUERY <=> MatchingEntries(lower(nlp.query)) = {}

\* C4 witness: a non-empty text no pattern matches was classified
\* GENERAL_QUERY
C4_NothingMatches ==
  /\ op = "detect_intent"
  /\ nlp.query # ""
  /\ MatchingEntries(lower(nlp.query)) = {}
  /\ ret = GENERAL_QUERY

\* C5: for every token matching ^\d+[mhd]$ (zero and leading zeros
\* included) from_period returns a window labelled with the token itself and
\* from_timestamp < to_timestamp.
C5_LabelIsTokenAndWindowNotEmpty ==
  (op = "from_period" /\ FullMatch(period_re, nlp.query)) =>
    /\ ret.raised = None
    /\ ret.time_period = nlp.query
    /\ ret.from_timestamp < ret.to_timestamp

\* C6: for every token that does not match ^\d+[mhd]$ in full, from_period
\* returns the default window: label "24h", to = now, from = now - 24 hours,
\* and never fails.
C6_DefaultWindowUnlessFullMatch ==
  (op = "from_period" /\ ~FullMatch(period_re, nlp.query)) =>
    /\ ret.raised = None
    /\ ret.time_period = "24h"
    /\ ret.to_timestamp = clock[1]
    /\ ret.from_timestamp = clock[1] - 24 * 3600

\* C7: two runs of process_query on the same text at the same clock
\* readings return identical responses (stated for the texts that make no
\* call on api_client, whose answers are not the handler's).
C7_SameRequestSameResponse ==
  (op = "process_query" /\ prev # <<>> /\ Answers = {NoAnswer}) => prev[1] = ret

Placeholders == {"from_time", "to_time", "threshold", "host_pattern"}

\* C8: every placeholder occurring in the SQL text generate_sql returns has
\* an entry of the same name in the returned context; a HIGH_CPU text yields
\* a threshold entry and a from_time entry.
C8_EveryPlaceholderBound ==
  (op = "generate_sql" /\ ret.raised = None) =>
    /\ \A p \in Placeholders : Contains(ret.sql, ":" \o p) => p \in DOMAIN ret.context
    /\ nlp.intent = HIGH_CPU => {"threshold", "from_time"} \subseteq DOMAIN ret.context

HasHostClause(r) == r.raised = None /\ Contains(r.sql, "h.name LIKE :host_pattern")
HasHostPattern(r) == r.raised = None /\ "host_pattern" \in DOMAIN r.context
HasHost(r) == r.raised = None /\ "host" \in DOMAIN r.context

\* C9: generate_sql appends the host filter clause and adds the
\* host_pattern entry if and only if extract_host returned a host; without a
\* host the SQL has no host clause and the context neither host nor
\* host_pattern.
C9_HostClauseIffHost ==
  op = "generate_sql" =>
    /\ nlp.host # None <=> HasHostClause(ret)
    /\ nlp.host # None <=> HasHostPattern(ret)
    /\ nlp.host = None => ~HasHost(ret)

\* C9, on the results generate_sql returns: the clause and the host_pattern
\* entry "%host%" are there exactly when a host was extracted.
C9_HostClauseIffHostWhenReturned ==
  (op = "generate_sql" /\ ret.raised = None) =>
    /\ nlp.host # None <=> HasHostClause(ret)
    /\ nlp.host # None <=> HasHostPattern(ret)
    /\ nlp.host # None => ret.context.host_pattern = "%" \o nlp.host \o "%"
    /\ nlp.host = None => ~HasHost(ret)

\* C10: for every HOST_MAINTENANCE text generate_api_call returns
\* "maintenance.create" with hostids empty, maintenance_type 0 and exactly
\* one time period, of type 0, lasting the duration in minutes times 60.
C10_MaintenanceCreateCall ==
  (op = "generate_api_call" /\ nlp.intent = HOST_MAINTENANCE) =>
    /\ ret.raised = None
    /\ ret.method = "maintenance.create"
    /\ ret.params.hostids = <<>>
    /\ ret.params.maintenance_type = 0
    /\ ret.params.timeperiods = <<[timeperiod_type |-> 0, period |-> nlp.duration * 60]>>

\* C10, on the calls generate_api_call returns
C10_MaintenanceCreateCallWhenReturned ==
  (op = "generate_api_call" /\ nlp.intent = HOST_MAINTENANCE /\ ret.raised = None) =>
    /\ ret.method = "maintenance.create"
    /\ ret.params.hostids = <<>>
    /\ ret.params.maintenance_type = 0
    /\ ret.params.timeperiods = <<[timeperiod_type |-> 0, period |-> nlp.duration * 60]>>

\* The dataset label of the first metric keyword in q, in the order cpu,
\* memory, disk; None when q has none of them
MetricLabel(q) ==
  IF Contains(q, "cpu") THEN "CPU %"
  ELSE IF Contains(q, "mem^ria") \/ Contains(q, "ram") THEN "Mem^ria %"
  ELSE IF Contains(q, "disco") THEN "Disco %"
  ELSE None

\* C11: for every GRAPH_REQUEST text the chart generate_graph_data returns
\* has chartType "line", no labels, and exactly one dataset, with no data,
\* which is that of the first metric keyword in the order cpu, memory, disk.
C11_OneEmptyDatasetByKeyword ==
  (op = "generate_graph_data" /\ nlp.intent = GRAPH_REQUEST) =>
    /\ ret.raised = None
    /\ ret.chart.chartType = "line"
    /\ ret.chart.labels = <<>>
    /\ Len(ret.chart.datasets) = 1
    /\ ret.chart.datasets[1].data = <<>>
    /\ ret.chart.datasets[1].label = MetricLabel(lower(nlp.query))

\* C11, for the GRAPH_REQUEST texts that return a chart and hold a metric
\* keyword
C11_OneEmptyDatasetWhenKeyword ==
  (/\ op = "generate_graph_data" /\ nlp.intent = GRAPH_REQUEST
   /\ ret.raised = None /\ MetricLabel(lower(nlp.query)) # None) =>
    /\ ret.chart.chartType = "line"
    /\ ret.chart.labels = <<>>
    /\ Len(ret.chart.datasets) = 1
    /\ ret.chart.datasets[1].data = <<>>
    /\ ret.chart.datasets[1].label = MetricLabel(lower(nlp.query))

Untemplated == {GENERAL_QUERY, DISK_USAGE}

FallbackNarrative == "N&o consegui entender sua consulta. Pode reformular de outra forma?"

\* C12: for a GENERAL_QUERY or DISK_USAGE text the synthesis yields no SQL
\* and no call (generate_sql, generate_api_call), and process_query answers
\* with the fallback narrative, without SQL or chart, instead of an error.
C12_UntemplatedIsUnsupported ==
  (op \in {"generate_sql", "generate_api_call", "process_query"}
     /\ nlp.intent \in Untemplated) =>
    /\ op = "generate_sql" => ret.raised = None /\ ret.sql = None
    /\ op = "generate_api_call" => ret.raised = None /\ ret.method = None
    /\ op = "process_query" =>
         /\ ret.status = 200
         /\ StartsWith(ret.response, FallbackNarrative)
         /\ ret.sql = None
         /\ ret.charts = None

\* C12, for what process_query and generate_api_call return where the time
\* window of the text resolves
C12_FallbackWhenWindowResolves ==
  (op \in {"generate_api_call", "process_query"} /\ nlp.intent \in Untemplated
     /\ from_period(nlp.period, NowBase).raised = None) =>
    /\ op = "generate_api_call" =>
         ret.raised = None /\ ret.method = None /\ ret.params = <<>>
    /\ op = "process_query" =>
         /\ ret.status = 200
         /\ StartsWith(ret.response, FallbackNarrative)
         /\ ret.sql = None
         /\ ret.charts = None
         /\ ret.data = <<>>
         /\ api_calls = <<>>

\* C12: where generate_sql returns for a GENERAL_QUERY or DISK_USAGE text,
\* it returns the generic host query
C12_GenericSqlForUntemplated ==
  (op = "generate_sql" /\ nlp.intent \in Untemplated /\ ret.raised = None) =>
    StartsWith(ret.sql, " -- Consulta gen+rica SELECT h.hostid, h.name, h.status, h.available FROM hosts h WHERE 1=1 ")

HostNarrative == "Por favor, especifique qual host deseja colocar em manuten$&o."

\* C13: a text that mentions maintenance and from which no host is
\* extracted, the bare word included, gets a response without artifact whose
\* narrative asks for the host.
C13_MaintenanceWithoutHostAsksForHost ==
  (op = "process_query" /\ Contains(lower(nlp.query), "manuten$&o") /\ nlp.host = None) =>
    /\ ret.status = 200
    /\ StartsWith(ret.response, HostNarrative)
    /\ ret.sql = None
    /\ ret.charts = None

\* C13: the bare word is classified GENERAL_QUERY and gets the fallback
\* narrative
C13_BareWordGetsFallback ==
  (op = "process_query" /\ nlp.query = "manuten$&o") =>
    /\ nlp.intent = GENERAL_QUERY
    /\ ret.status = 200
    /\ StartsWith(ret.response, FallbackNarrative)

\* C14: a text that matches patterns of both HOST_STATUS and
\* HOST_MAINTENANCE is classified HOST_MAINTENANCE.
C14_MaintenanceWinsOverStatus ==
  (op = "detect_intent" /\ Matches(4, lower(nlp.query)) /\ Matches(9, lower(nlp.query))) =>
    ret = HOST_MAINTENANCE

\* The extracted parameters a context carries
ParamKeys == {"host", "host_pattern", "threshold", "time_range", "duration"}

Extracted(context) == [k \in DOMAIN context \cap ParamKeys |-> context[k]]

SameProbes(a, b) ==
  /\ a.host = b.host
  /\ a.threshold = b.threshold
  /\ a.period = b.period
  /\ a.duration = b.duration

\* The parameters of the context generate_sql returns for the text whose
\* probes are other, compared with those of context
SameExtracted(other, now, context) ==
  Extracted(generate_sql(other, now).context) = Extracted(context)

\* C15: the extracted parameters attached to a result depend on the text's
\* probe values alone: two texts whose probes return the same host,
\* threshold, period and duration get contexts with the same extracted
\* parameters from generate_sql, whatever their intents.
C15_ParametersIndependentOfIntent ==
  (op = "generate_sql" /\ ret.raised = None) =>
    \A q \in Phrases :
      SameProbes(nlp, Probes(q)) => SameExtracted(Probes(q), clock[1], ret.context)

\* What call c returns when it runs alone, on the clock readings, random
\* draws and api_client answers it saw
Alone(c) ==
  process_query(calls[c].probes, [query |-> calls[c].query, conversation_id |-> None],
                environment, calls[c].now, calls[c].rand, calls[c].api)

\* C16: process_query calls running concurrently on the global
\* nlp_processor do not interfere: under every interleaving of their
\* statements each call returns what it returns when run alone (on the same
\* clock readings, random draws and api_client answers).
C16_ConcurrentCallsDoNotInterfere ==
  \A c \in CallIds : calls[c].pc = "done" => calls[c].result = Alone(c)

\* C16 witness: two calls on different texts, one of them a maintenance
\* request with a host, have both returned after overlapping with each other
C16_TwoCallsOverlapped ==
  /\ calls[1].pc = "done" /\ calls[1].overlapped
  /\ calls[2].pc = "done" /\ calls[2].overlapped
  /\ calls[1].intent = HOST_MAINTENANCE /\ calls[1].host # None
  /\ calls[2].intent = HOST_STATUS
  /\ calls[1].result.http.status = 200
  /\ calls[2].result.http.status = 200

\* C17: no path of process_query, for any intent and any extracted
\* parameters, makes a call on the monitoring backend (api_client).
C17_NoBackendCall ==
  op = "process_query" => api_calls = <<>>

\* (?:acima|maior|superior|mais)[:\s]+(?:de|que)?[:\s]*(\d+): the magnitude
\* phrase "acima/maior/superior/mais [de|que] N"
MagnitudePhrase ==
  Cat(<<Alt(<<Str("acima"), Str("maior"), Str("superior"), Str("mais")>>),
        Plus(In({":"} \cup Whitespace)), Opt(Alt(<<Str("de"), Str("que")>>)),
        Star(In({":"} \cup Whitespace)), Grp(1, Plus(In(Digit)))>>)

\* The number of the first phrase of q that r matches
PhraseNumber(r, q) == ParseInt(Group(r, 1, q, SearchStart(r, q)))

\* C18: extract_threshold returns the integer N of the magnitude phrase
\* "acima/maior/superior/mais [de|que] N" when the text has one, and
\* otherwise the caller's default, whatever the default.
C18_ThresholdOfPhraseOrDefault ==
  op = "extract_threshold" =>
    IF Search(MagnitudePhrase, lower(nlp.query))
    THEN ret.value = PhraseNumber(MagnitudePhrase, lower(nlp.query))
    ELSE ret.value = ret.default

\* A magnitude phrase followed by "%" or white space
DelimitedPhrase == Cat(<<MagnitudePhrase, In({"%"} \cup Whitespace)>>)

\* C18, without the phrases that end the text: a text with no magnitude
\* phrase gets the default, and a phrase followed by "%" or white space
\* gets its number
C18_ThresholdOfDelimitedPhraseOrDefault ==
  op = "extract_threshold" =>
    /\ ~Search(MagnitudePhrase, lower(nlp.query)) => ret.value = ret.default
    /\ Search(DelimitedPhrase, lower(nlp.query)) =>
         ret.value = PhraseNumber(MagnitudePhrase, lower(nlp.query))

\* The minutes in one unit, by the unit's first letter
MinutesPerUnit(unit) ==
  IF SubSeq(unit, 1, 1) = "m" THEN 1 ELSE IF SubSeq(unit, 1, 1) = "h" THEN 60 ELSE 1440

\* The unit of the first phrase of q that r matches
PhraseUnit(r, q) == Group(r, 2, q, SearchStart(r, q))

\* C19: extract_duration returns the duration of a "por/durante N <unit>"
\* phrase in minutes (N for minutes, N*60 for hours, N*1440 for days), and
\* the caller's default when the text has no such phrase.
C19_DurationInMinutesOrDefault ==
  op = "extract_duration" =>
    IF Search(duration_pattern, lower(nlp.query))
    THEN ret.value = PhraseNumber(duration_pattern, lower(nlp.query))
                       * MinutesPerUnit(PhraseUnit(duration_pattern, lower(nlp.query)))
    ELSE ret.value = ret.default

\* A phrase in days has been converted, and the default was another number
C19_DaysConverted ==
  /\ op = "extract_duration"
  /\ nlp.query = "durante 3 dias"
  /\ ret = [default |-> 60, value |-> 4320]

\* The window of the first "|ltimas/|ltimos N <unit>" phrase of q, or the
\* default one
WindowOfPhrase(q, now) ==
  IF Search(period_pattern, q)
  THEN TimeRange(now - PhraseNumber(period_pattern, q)
                         * UnitSeconds(SubSeq(PhraseUnit(period_pattern, q), 1, 1)),
                 now,
                 FormatInt(PhraseNumber(period_pattern, q))
                   \o SubSeq(PhraseUnit(period_pattern, q), 1, 1))
  ELSE TimeRange(now - 24 * 3600, now, "24h")

\* C20: for a text with a "|ltimas/|ltimos N <minutes|hours|days>" phrase
\* extract_time_range yields the window labelled N and the first letter of
\* the unit, spanning N of that unit back from now; for a text without one,
\* the default window labelled "24h".
C20_WindowOfPhraseOrDefault ==
  op = "extract_time_range" =>
    /\ ret.raised = None
    /\ ret = WindowOfPhrase(lower(nlp.query), clock[1])

\* C20, for the calls that return in a zone whose clocks are never changed
C20_WindowOfPhraseOrDefaultWhenReturned ==
  (op = "extract_time_range" /\ ret.raised = None /\ tz = "UTC") =>
    ret = WindowOfPhrase(lower(nlp.query), clock[1])

\* C21: every TimeRange that from_period or extract_time_range produces has
\* from_timestamp <= to_timestamp, whatever the token or text and the clock
\* readings.
C21_FromNotAfterTo ==
  (op \in {"from_period", "extract_time_range"} /\ ret.raised = None) =>
    ret.from_timestamp <= ret.to_timestamp

\* C21, in a zone whose clocks are never changed
C21_FromNotAfterToWithoutTransitions ==
  (op \in {"from_period", "extract_time_range"} /\ ret.raised = None /\ tz = "UTC") =>
    ret.from_timestamp <= ret.to_timestamp


UpperChar(c) ==
  IF c \in LowerAZ
  THEN CharAt(UpperChars, CHOOSE i \in 1 .. Len(LowerChars) : CharAt(LowerChars, i) = c)
  ELSE c

\* str.upper(), for the letters a to z
RECURSIVE upper(_)
upper(s) == IF s = "" THEN "" ELSE UpperChar(Head(s)) \o upper(Tail(s))

\* The text with its letter case changed, and with white space before it
CaseAndLeadingSpace(q) == {upper(q), lower(q), " " \o q, upper(" " \o q)}

\* The text with white space after it
TrailingSpace(q) == {q \o " "}

\* The intent and the parameters of two texts are the same
SameReading(a, b) == a.intent = b.intent /\ SameProbes(a, b)

\* C22: a text, and the same text with its letter case changed or with
\* leading or trailing white space added, yield the same intent, host,
\* threshold, time-window label and duration.
C22_SameUnderNormalization ==
  op = "submitted" =>
    \A v \in CaseAndLeadingSpace(nlp.query) \cup TrailingSpace(nlp.query) :
      SameReading(nlp, Probes(v))

\* C22, for the letter case and the leading white space
C22_SameUnderCaseAndLeadingSpace ==
  op = "submitted" =>
    \A v \in CaseAndLeadingSpace(nlp.query) : SameReading(nlp, Probes(v))

\* The greatest value of a non-empty history
Greatest(history) == Max({history[i] : i \in DOMAIN history})

\* The host's CPU items with a history whose greatest value is above the
\* threshold, by their position in the host's item list
ItemsAbove(zabbix, host, threshold) ==
  {k \in DOMAIN zabbix.items[host] :
     /\ zabbix.history[zabbix.items[host][k]] # <<>>
     /\ Greatest(zabbix.history[zabbix.items[host][k]]) > threshold}

\* The hosts, in host order, that have such an item, each with the greatest
\* value of the first one
RECURSIVE HostsAbove(_, _, _)
HostsAbove(j, zabbix, threshold) ==
  IF j > Len(zabbix.hosts) THEN <<>>
  ELSE LET host == zabbix.hosts[j]
           items == ItemsAbove(zabbix, host, threshold)
       IN (IF items = {} THEN <<>>
           ELSE <<[hostid |-> host,
                   cpu_max |-> FloatStr(Greatest(zabbix.history[zabbix.items[host][Min(items)]]))]>>)
          \o HostsAbove(j + 1, zabbix, threshold)

\* C23: get_hosts_with_high_cpu returns exactly the hosts that have a CPU
\* item whose greatest history value is strictly above the threshold, each
\* once, in host order, with cpu_max that item's greatest value; hosts
\* without CPU items or without history are left out.
C23_HostsAboveThreshold ==
  op = "get_hosts_with_high_cpu" =>
    [j \in DOMAIN ret.result |->
       [hostid |-> ret.result[j].hostid, cpu_max |-> ret.result[j].cpu_max]]
      = HostsAbove(1, nlp.zabbix, nlp.threshold)

\* C23, for the thresholds that are not negative
C23_HostsAboveThresholdFromZeroUp ==
  (op = "get_hosts_with_high_cpu" /\ nlp.threshold >= 0) =>
    [j \in DOMAIN ret.result |->
       [hostid |-> ret.result[j].hostid, cpu_max |-> ret.result[j].cpu_max]]
      = HostsAbove(1, nlp.zabbix, nlp.threshold)

\* C24: GET /api/metrics/high-cpu with threshold=T and period_minutes=P is
\* handled by get_high_cpu_hosts, which calls get_hosts_with_high_cpu once
\* with threshold=T and period_minutes=P and answers 200 with the host list
\* and a query field echoing T and P.
C24_HighCpuRouteReachesItsHandler ==
  (op = "metrics_get" /\ nlp.path = "/high-cpu" /\ ~nlp.service.high_cpu.raised) =>
    /\ ret.endpoint = "get_high_cpu_hosts"
    /\ ret.calls = <<ServiceCall("get_hosts_with_high_cpu", nlp.query)>>
    /\ ret.status = 200
    /\ ret.body = [hosts |-> nlp.service.high_cpu.hosts, query |-> nlp.query]

\* C24: what answers GET /api/metrics/high-cpu is get_host_metrics, with
\* "high-cpu" for the host
C24_HighCpuRouteIsTakenForAHost ==
  (op = "metrics_get" /\ nlp.path = "/high-cpu") =>
    /\ ret.endpoint = "get_host_metrics"
    /\ ret.calls[1] = ServiceCall("get_host_details", "high-cpu")
    /\ \A k \in DOMAIN ret.calls : ret.calls[k].call # "get_hosts_with_high_cpu"

TimePlaceholders == {"from_time", "to_time"}

\* The placeholders among from_time, to_time and threshold that occur in sql
PlaceholdersIn(sql) ==
  {p \in TimePlaceholders \cup {"threshold"} : Contains(sql, ":" \o p)}

\* C25 as stated: for each of the six intents answered by SQL the text that
\* generate_sql emits holds the placeholders from_time, to_time and threshold.
C25_AllThreePlaceholders ==
  (op = "generate_sql" /\ ret.raised = None /\ nlp.intent \in SqlIntents) =>
    PlaceholdersIn(ret.sql) = TimePlaceholders \cup {"threshold"}

\* C25: the text generate_sql emits holds from_time, to_time and threshold
\* for HIGH_CPU and MEMORY_USAGE, from_time and to_time alone for
\* ALERT_SUMMARY, and none of the three for HOST_STATUS, HOST_UPTIME and
\* UNAVAILABLE_SERVICES.
C25_PlaceholdersByIntent ==
  (op = "generate_sql" /\ ret.raised = None /\ nlp.intent \in SqlIntents) =>
    PlaceholdersIn(ret.sql) =
      CASE nlp.intent \in {HIGH_CPU, MEMORY_USAGE} -> TimePlaceholders \cup {"threshold"}
        [] nlp.intent = ALERT_SUMMARY -> TimePlaceholders
        [] OTHER -> {}

\* generate_sql has emitted the ALERT_SUMMARY text, which has the window's
\* placeholders and no threshold
C25_AlertSummaryWithoutThreshold ==
  /\ op = "generate_sql"
  /\ ret.raised = None
  /\ nlp.intent = ALERT_SUMMARY
  /\ PlaceholdersIn(ret.sql) = TimePlaceholders

\* C26: while one query is processed the window is resolved exactly once.
C26_WindowResolvedOnce ==
  \A c \in CallIds : calls[c].pc = "done" => Len(calls[c].windows) = 1

\* C26: the handler resolves the window, and so does the generate_* call of
\* every branch but HOST_MAINTENANCE, unless the first resolution raised
C26_WindowResolvedAgainByTheBranch ==
  \A c \in CallIds :
    calls[c].pc = "done" =>
      Len(calls[c].windows) =
        IF calls[c].locals.raised = "OverflowError" \/ calls[c].intent = HOST_MAINTENANCE
        THEN 1 ELSE 2

\* C27: in the maintenance.create parameters generate_api_call builds,
\* active_till - active_since is timeperiods[0].period (duration * 60),
\* whatever the clock does between the reads.
C27_MaintenanceSpanIsThePeriod ==
  (op = "generate_api_call" /\ ret.raised = None /\ ret.method = "maintenance.create") =>
    /\ ret.params.timeperiods[1].period = nlp.duration * 60
    /\ ret.params.active_till - ret.params.active_since = ret.params.timeperiods[1].period

\* C27, when the two reads give the same second
C27_MaintenanceSpanIsThePeriodOnOneReading ==
  (op = "generate_api_call" /\ ret.raised = None /\ ret.method = "maintenance.create"
     /\ clock[2] = clock[3]) =>
    /\ ret.params.timeperiods[1].period = nlp.duration * 60
    /\ ret.params.active_till - ret.params.active_since = ret.params.timeperiods[1].period

\* C28: the fallback branch of process_query is reached for DISK_USAGE and
\* GENERAL_QUERY alone; generate_api_call returns no method for them, so no
\* such query is answered with the host list ("Encontrados N hosts no
\* sistema") and each gets the narrative that asks to rephrase.
C28_FallbackNeverListsHosts ==
  /\ (op = "generate_api_call" /\ nlp.intent \in Untemplated /\ ret.raised = None) =>
       ret.method = None
  /\ (op = "process_query" /\ nlp.intent \in Untemplated) =>
       IF ret.status = 200
       THEN StartsWith(ret.response, FallbackNarrative) /\ ret.data = <<>>
       ELSE from_period(nlp.period, clock[2]).raised # None
  /\ (op = "process_query" /\ ret.status = 200) =>
       /\ ~Contains(ret.response, "Encontrados 3 hosts no sistema.")
       /\ StartsWith(ret.response, FallbackNarrative) => nlp.intent \in Untemplated

\* A DISK_USAGE text has gone through the fallback branch
C28_DiskUsageInFallback ==
  /\ op = "process_query"
  /\ nlp.intent = DISK_USAGE
  /\ ret.status = 200
  /\ StartsWith(ret.response, FallbackNarrative)

\* The narrative process_query built, that is, the response without the
\* processing-time suffix the non-production environments append
TimingSuffix ==
  "\n\nConsulta processada em " \o FormatInt(clock[5] - clock[1]) \o ".00 segundos."

BuiltNarrative ==
  IF environment # "production"
  THEN SubSeq(ret.response, 1, Len(ret.response) - Len(TimingSuffix))
  ELSE ret.response

C29_SqlNarrativeNonEmptyButMemory ==
  (op = "process_query" /\ nlp.intent \in SqlIntents /\ ret.status = 200) =>
    /\ ret.sql # None
    /\ BuiltNarrative \o (IF environment # "production" THEN TimingSuffix ELSE "") = ret.response
    /\ (BuiltNarrative = "") = (nlp.intent = MEMORY_USAGE)

\* The client of the state was constructed with an api_token
TokenClient == op = "ZabbixAPIClient" /\ nlp.api_token \notin {None, ""}

\* C30: a ZabbixAPIClient constructed with an api_token authenticates its
\* requests with that token and never sends a user.login request with
\* username and password, at construction or in any later api_call.
C30_TokenClientNeverLogsIn ==
  TokenClient =>
    \A i \in DOMAIN api_calls :
      /\ ~(api_calls[i].method = "user.login" /\ api_calls[i].user # None)
      /\ api_calls[i].method # "user.login" =>
           nlp.api_token \in {api_calls[i].auth, api_calls[i].authorization}

\* What the client constructed with an api_token does: no request carries
\* the api_token, and every request of another method follows a user.login
\* with the settings' credentials that a call by the client has sent
C30_TokenClientLogsInOnFirstCall ==
  TokenClient =>
    \A i \in DOMAIN api_calls :
      /\ nlp.api_token \notin {api_calls[i].auth, api_calls[i].authorization}
      /\ api_calls[i].method # "user.login" =>
           /\ api_calls[i].auth = "session"
           /\ \E j \in 1 .. i - 1 :
                /\ api_calls[j].method = "user.login"
                /\ api_calls[j].user = "Admin"
                /\ api_calls[j].password = "zabbix"

====
